---------------------------- MODULE Spec2Model ----------------------------
(***************************************************************************)
(* node-red-contrib-flow-splitter-extended: the extraction / restoration   *)
(* engine of src/functions-templates-handler.js (write, then garbage-      *)
(* collect by file name) and of its second copy src/unnamed/part_001       *)
(* (delete the extraction directory, then write).                          *)
(*                                                                         *)
(* A string is a sequence of one-character strings, so that trim, indexOf, *)
(* replace and template literals are computed as JavaScript computes them. *)
(* An optional field is a record [def, v]: def = FALSE is undefined/null.  *)
(***************************************************************************)
EXTENDS Naturals, Sequences, FiniteSets

VARIABLES
    variant,    \* which handler file is installed: "gc" or "fresh"
    nodes,      \* flowNodes: the entity's node list
    dirExists,  \* fs.existsSync(extractedDir)
    files,      \* side files of extractedDir: file name -> content
    manifest,   \* extractedDir/.manifest.json: [state, entries]
    last,       \* history: the operation that produced this state
    prev,       \* history: the state that operation started from
    steps,      \* number of operations so far
    tree,       \* the split tree: entity name -> [nodes, dirExists, files, manifest]
    cfg,        \* .config.flow-splitter.json: the two flags
    io,         \* history: what the last invocation of the plugin did
    run         \* the event loop: pending continuations, the log of calls

vars == <<variant, nodes, dirExists, files, manifest, last, prev, steps, tree, cfg, io, run>>

\* the state of the plugin as a whole, left alone by the steps on one entity
indexVars == <<tree, cfg, io, run>>

\* the state of the single entity, left alone by the steps of the plugin
entityVars == <<nodes, dirExists, files, manifest, last, prev>>

---------------------------------------------------------------------------
(* Strings *)

Undef == [def |-> FALSE, v |-> <<>>]

Str(s) == [def |-> TRUE, v |-> s]

WhiteSpace == {" ", "\n", "\t"}

RECURSIVE TrimStart(_)
TrimStart(s) ==
    IF s # <<>> /\ Head(s) \in WhiteSpace THEN TrimStart(Tail(s)) ELSE s

RECURSIVE TrimEnd(_)
TrimEnd(s) ==
    IF s # <<>> /\ s[Len(s)] \in WhiteSpace
    THEN TrimEnd(SubSeq(s, 1, Len(s) - 1))
    ELSE s

\* String.prototype.trim
Trim(s) == TrimEnd(TrimStart(s))

\* s.indexOf(p) > -1
Contains(s, p) ==
    \E i \in 0..Len(s) : i + Len(p) <= Len(s) /\ SubSeq(s, i + 1, i + Len(p)) = p

\* s.endsWith(p)
EndsWith(s, p) ==
    Len(p) <= Len(s) /\ SubSeq(s, Len(s) - Len(p) + 1, Len(s)) = p

DigitChar == <<"0", "1", "2", "3", "4", "5", "6", "7", "8", "9">>

\* the decimal rendering of a number inside a template literal
RECURSIVE Dec(_)
Dec(n) ==
    IF n < 10 THEN <<DigitChar[n + 1]>>
    ELSE Dec(n \div 10) \o <<DigitChar[(n % 10) + 1]>>

TemplateTag == <<"<", "t", "e", "m", "p", "l", "a", "t", "e", ">">>
ScriptTag == <<"<", "s", "c", "r", "i", "p", "t", ">">>

ExtVue == <<".", "v", "u", "e">>
ExtJs == <<".", "j", "s">>
ExtMd == <<".", "m", "d">>
ExtInitialize == <<".", "i", "n", "i", "t", "i", "a", "l", "i", "z", "e", ".", "j", "s">>
ExtFinalize == <<".", "f", "i", "n", "a", "l", "i", "z", "e", ".", "j", "s">>
ExtInfo == <<".", "i", "n", "f", "o", ".", "m", "d">>

UnnamedFunction ==
    <<"u", "n", "n", "a", "m", "e", "d", "-", "f", "u", "n", "c", "t", "i", "o", "n">>
UnnamedTemplate ==
    <<"u", "n", "n", "a", "m", "e", "d", "-", "t", "e", "m", "p", "l", "a", "t", "e">>

\* the character class of the sanitizing replace: / \ : * ? " < > |
ForbiddenChars == {"/", "\\", ":", "*", "?", "\"", "<", ">", "|"}

\* mutant: a character class that holds the slash only
SanitizeChar_SlashOnly(c) == IF c = "/" THEN "-" ELSE c

SanitizeChar(c) == IF c \in ForbiddenChars THEN "-" ELSE c

\* name.replace(/[\/\\:*?"<>|]/g, '-')
Sanitize(name) == [i \in 1..Len(name) |-> SanitizeChar(name[i])]


---------------------------------------------------------------------------
(* The extraction directory *)

EmptyMap == [x \in {} |-> x]

NoManifest == [state |-> "absent", entries |-> <<>>]

NoDir == [dirExists |-> FALSE, files |-> EmptyMap, manifest |-> NoManifest]

\* mutant: fs.appendFileSync in place of fs.writeFileSync
WriteFile_Append(fs, file, content) ==
    [f \in (DOMAIN fs) \cup {file} |->
        IF f # file THEN fs[f]
        ELSE IF file \in DOMAIN fs THEN fs[file] \o content ELSE content]

\* fs.writeFileSync(file, content, 'utf8'): create or overwrite
WriteFile(fs, file, content) ==
    [f \in (DOMAIN fs) \cup {file} |-> IF f = file THEN content ELSE fs[f]]

\* fs.removeSync(file)
RemoveFile(fs, file) == [f \in (DOMAIN fs) \ {file} |-> fs[f]]

---------------------------------------------------------------------------
(* extractFunctionsAndTemplates: the per-node step *)

\* JavaScript truthiness of an optional string: undefined, null and '' are falsy
Truthy(x) == x.def /\ x.v # <<>>

IsExtractableType(node) == node.type \in {"function", "ui-template"}

\* name = node.name || 'unnamed-function' / 'unnamed-template'
NodeName(node) ==
    IF Truthy(node.name) THEN node.name.v
    ELSE IF node.type = "function" THEN UnnamedFunction
    ELSE UnnamedTemplate

\* fileNames.filter((n) => n === sanitizedName).length
NameCount(fileNames, sanitizedName) ==
    Cardinality({i \in 1..Len(fileNames) : fileNames[i] = sanitizedName})

\* fileName = nameCount > 1 ? `${sanitizedName}(${nameCount})` : sanitizedName
FileNameOf(sanitizedName, nameCount) ==
    IF nameCount > 1
    THEN sanitizedName \o <<"(">> \o Dec(nameCount) \o <<")">>
    ELSE sanitizedName

\* node.format?.trim().indexOf(tag) !== -1 ?? false
\* (undefined !== -1 is true, and ?? never replaces a boolean)
HasTag(node, tag) ==
    IF node.format.def THEN Contains(Trim(node.format.v), tag) ELSE TRUE

IsVue(node) ==
    node.format.def /\ (HasTag(node, TemplateTag) \/ HasTag(node, ScriptTag))

\* mutant: the test without trim()
NonBlank_NoTrim(x) == x.def /\ Len(x.v) > 0

\* typeof x === 'string' && x.trim().length > 0
NonBlank(x) == x.def /\ Len(Trim(x.v)) > 0

IsFun(node) ==
    /\ NonBlank(node.func) \/ NonBlank(node.initialize) \/ NonBlank(node.finalize)
    /\ IsVue(node) = FALSE

\* if ((x ?? '').trim().length === 0) x = undefined
CleanEmpty(x) == IF NonBlank(x) THEN x ELSE Undef

CodeOf(node) == CleanEmpty(IF IsVue(node) THEN node.format ELSE node.func)
InitializeOf(node) == CleanEmpty(IF IsFun(node) THEN node.initialize ELSE Undef)
FinalizeOf(node) == CleanEmpty(IF IsFun(node) THEN node.finalize ELSE Undef)
InfoOf(node) == CleanEmpty(node.info)

CodeName(baseName, isVue) == baseName \o (IF isVue THEN ExtVue ELSE ExtJs)
InitializeName(baseName) == baseName \o ExtInitialize
FinalizeName(baseName) == baseName \o ExtFinalize
InfoName(baseName) == baseName \o ExtInfo

\* mutant: the write without the null test leaves an empty file for an unset field
WriteIfSet_Always(fs, file, x) == WriteFile(fs, file, x.v)

\* if (x != null) fs.writeFileSync(file, x, 'utf8')
WriteIfSet(fs, file, x) == IF x.def THEN WriteFile(fs, file, x.v) ELSE fs

ManifestEntry(node, name, sanitizedName, fileName) ==
    [nodeId |-> node.id,
     name |-> name,
     sanitizedName |-> sanitizedName,
     fileName |-> fileName,
     isVue |-> IsVue(node),
     isFun |-> IsFun(node),
     hasCode |-> CodeOf(node).def,
     hasInitialize |-> InitializeOf(node).def,
     hasFinalize |-> FinalizeOf(node).def,
     hasInfo |-> InfoOf(node).def]

\* manifest[id] = entry: a new key is appended, an existing key keeps its place
ManifestSet(entries, entry) ==
    IF \E i \in 1..Len(entries) : entries[i].nodeId = entry.nodeId
    THEN [i \in 1..Len(entries) |->
            IF entries[i].nodeId = entry.nodeId THEN entry ELSE entries[i]]
    ELSE Append(entries, entry)

\* the four writes of one extracted node
WriteSideFiles(fs, node, fileName) ==
    LET f1 == WriteIfSet(fs, CodeName(fileName, IsVue(node)), CodeOf(node))
        f2 == WriteIfSet(f1, InitializeName(fileName), InitializeOf(node))
        f3 == WriteIfSet(f2, FinalizeName(fileName), FinalizeOf(node))
    IN  WriteIfSet(f3, InfoName(fileName), InfoOf(node))

\* the body of flowNodes.forEach; acc holds the locals of the pass and the disk
ExtractNode(acc, node) ==
    IF ~IsExtractableType(node) THEN acc
    ELSE
        LET name == NodeName(node)
            sanitizedName == Sanitize(name)
            fileNames == Append(acc.fileNames, sanitizedName)
            fileName == FileNameOf(sanitizedName, NameCount(fileNames, sanitizedName))
        IN  IF IsVue(node) \/ IsFun(node)
            THEN [fileNames |-> fileNames,
                  dirExists |-> TRUE,
                  count |-> acc.count + 1,
                  files |-> WriteSideFiles(acc.files, node, fileName),
                  entries |-> ManifestSet(acc.entries,
                                  ManifestEntry(node, name, sanitizedName, fileName))]
            ELSE [acc EXCEPT !.fileNames = fileNames]

RECURSIVE ExtractNodes(_, _, _)
ExtractNodes(flowNodes, i, acc) ==
    IF i > Len(flowNodes) THEN acc
    ELSE ExtractNodes(flowNodes, i + 1, ExtractNode(acc, flowNodes[i]))

\* the state of the pass before the first node
PassStart(d) ==
    [fileNames |-> <<>>, dirExists |-> d.dirExists, count |-> 0,
     files |-> d.files, entries |-> <<>>]

---------------------------------------------------------------------------
(* cleanupUnusedFiles, getAllFiles *)

ValidExtensions == {ExtVue, ExtJs, ExtMd}

\* getAllFiles(dir, exts): the files that end with one of exts. The manifest
\* (.manifest.json) ends with none of them and is not in the files map.
getAllFiles(fs) == {f \in DOMAIN fs : \E ext \in ValidExtensions : EndsWith(f, ext)}

\* file.indexOf(item.fileName) > -1 for some manifest item
FoundInManifest(file, entries) ==
    \E i \in 1..Len(entries) : Contains(file, entries[i].fileName)

cleanupUnusedFiles(dirThere, fs, entries) ==
    IF ~dirThere THEN fs
    ELSE [f \in {g \in DOMAIN fs : g \notin getAllFiles(fs) \/ FoundInManifest(g, entries)}
            |-> fs[f]]

---------------------------------------------------------------------------
(* extractFunctionsAndTemplates *)

\* Save manifest if we extracted anything
SaveManifest(old, acc) ==
    IF acc.count > 0 THEN [state |-> "ok", entries |-> acc.entries] ELSE old

\* src/functions-templates-handler.js: write, save the manifest, clean up
extractFunctionsAndTemplates(flowNodes, d) ==
    IF Len(flowNodes) = 0 THEN d
    ELSE
        LET acc == ExtractNodes(flowNodes, 1, PassStart(d))
        IN  [dirExists |-> acc.dirExists,
             files |-> cleanupUnusedFiles(acc.dirExists, acc.files, acc.entries),
             manifest |-> SaveManifest(d.manifest, acc)]

\* src/unnamed/part_001: delete the whole directory, write, save the manifest
extractFunctionsAndTemplatesFresh(flowNodes, d) ==
    IF Len(flowNodes) = 0 THEN d
    ELSE
        LET acc == ExtractNodes(flowNodes, 1, PassStart(NoDir))
        IN  [dirExists |-> acc.dirExists,
             files |-> acc.files,
             manifest |-> SaveManifest(NoManifest, acc)]

\* the ids of the nodes a pass over flowNodes extracts
ExtractedIds(flowNodes) ==
    {flowNodes[i].id : i \in {j \in 1..Len(flowNodes) :
        IsExtractableType(flowNodes[j]) /\ (IsVue(flowNodes[j]) \/ IsFun(flowNodes[j]))}}

---------------------------------------------------------------------------
(* collectFunctionsAndTemplates / restoreFunctionsAndTemplates *)

\* mutant: the file is read only into a field that is not set yet
ReadField_OnlyIfUnset(flag, fs, file, old) ==
    IF flag /\ file \in DOMAIN fs /\ ~old.def THEN Str(fs[file]) ELSE old

\* mutant: without the fs.existsSync guard, a missing file clears the field
ReadField_ClearMissing(flag, fs, file, old) ==
    IF flag THEN (IF file \in DOMAIN fs THEN Str(fs[file]) ELSE Undef) ELSE old

\* mutant: a field that already holds the content of the file is cleared
ReadField_ClearEqual(flag, fs, file, old) ==
    IF flag /\ file \in DOMAIN fs
    THEN (IF old = Str(fs[file]) THEN Undef ELSE Str(fs[file]))
    ELSE old

\* if (flag && fs.existsSync(file)) { if (node[field] !== content) node[field] = content }
ReadField(flag, fs, file, old) ==
    IF flag /\ file \in DOMAIN fs THEN Str(fs[file]) ELSE old

\* Read and update code
RestoreCode(node, item, fs) ==
    LET codeFile == CodeName(item.fileName, item.isVue)
    IN  IF item.hasCode /\ codeFile \in DOMAIN fs
        THEN IF item.isVue
             THEN IF node.format # Str(fs[codeFile])
                  THEN [node EXCEPT !.format = Str(fs[codeFile]),
                                    !.func = Str(fs[codeFile])]
                  ELSE node
             ELSE IF item.isFun
                  THEN [node EXCEPT !.func = Str(fs[codeFile])]
                  ELSE node
        ELSE node

\* mutant: the base name is derived from the node's current name
RestoreNode_ByCurrentName(node, item, fs) ==
    LET byName == [item EXCEPT !.fileName = Sanitize(NodeName(node))]
        n1 == RestoreCode(node, byName, fs)
    IN  [n1 EXCEPT
            !.initialize = ReadField(item.hasInitialize, fs,
                               InitializeName(byName.fileName), n1.initialize),
            !.finalize = ReadField(item.hasFinalize, fs,
                             FinalizeName(byName.fileName), n1.finalize),
            !.info = ReadField(item.hasInfo, fs, InfoName(byName.fileName), n1.info)]

\* the body of Object.keys(manifest).forEach for a node that was found
RestoreNode(node, item, fs) ==
    LET n1 == RestoreCode(node, item, fs)
    IN  [n1 EXCEPT
            !.initialize = ReadField(item.hasInitialize, fs,
                               InitializeName(item.fileName), n1.initialize),
            !.finalize = ReadField(item.hasFinalize, fs,
                             FinalizeName(item.fileName), n1.finalize),
            !.info = ReadField(item.hasInfo, fs, InfoName(item.fileName), n1.info)]

\* flowNodes.find(n => n.id === nodeId): the first index, 0 when there is none
FindNode(flowNodes, nodeId) ==
    IF \E i \in 1..Len(flowNodes) : flowNodes[i].id = nodeId
    THEN CHOOSE i \in 1..Len(flowNodes) :
            /\ flowNodes[i].id = nodeId
            /\ \A j \in 1..(i - 1) : flowNodes[j].id # nodeId
    ELSE 0

\* mutant: the loop ends at the first entry whose node is not in the list
RECURSIVE RestoreEntries_StopAtMissing(_, _, _, _)
RestoreEntries_StopAtMissing(flowNodes, entries, k, fs) ==
    IF k > Len(entries) THEN flowNodes
    ELSE
        LET i == FindNode(flowNodes, entries[k].nodeId)
        IN  IF i = 0 THEN flowNodes
            ELSE RestoreEntries_StopAtMissing(
                     [flowNodes EXCEPT ![i] = RestoreNode(flowNodes[i], entries[k], fs)],
                     entries, k + 1, fs)

RECURSIVE RestoreEntries(_, _, _, _)
RestoreEntries(flowNodes, entries, k, fs) ==
    IF k > Len(entries) THEN flowNodes
    ELSE
        LET i == FindNode(flowNodes, entries[k].nodeId)
            updated == IF i = 0 THEN flowNodes
                       ELSE [flowNodes EXCEPT ![i] = RestoreNode(flowNodes[i], entries[k], fs)]
        IN  RestoreEntries(updated, entries, k + 1, fs)

collectFunctionsAndTemplates(flowNodes, d) ==
    IF Len(flowNodes) = 0 THEN flowNodes
    ELSE IF d.manifest.state = "absent" THEN flowNodes
    ELSE IF d.manifest.state = "corrupt" THEN flowNodes
    ELSE RestoreEntries(flowNodes, d.manifest.entries, 1, d.files)


\* part_001 names the same code restoreFunctionsAndTemplates
restoreFunctionsAndTemplates(flowNodes, d) == collectFunctionsAndTemplates(flowNodes, d)

---------------------------------------------------------------------------
(* extractFunctionsAndTemplates when fs.writeFileSync throws *)

\* the writes of one extracted node, in the order of the code
SideWrites(node, fileName) ==
    LET all == <<[file |-> CodeName(fileName, IsVue(node)), x |-> CodeOf(node)],
                 [file |-> InitializeName(fileName), x |-> InitializeOf(node)],
                 [file |-> FinalizeName(fileName), x |-> FinalizeOf(node)],
                 [file |-> InfoName(fileName), x |-> InfoOf(node)]>>
    IN  SelectSeq(all, LAMBDA w : w.x.def)

\* the writes in order; the write of a path of `bad` throws (permission, disk
\* full) and leaves the file as it was. w = [files, attempts, thrown]
RECURSIVE WriteAll(_, _, _, _)
WriteAll(w, writes, k, bad) ==
    IF k > Len(writes) THEN w
    ELSE IF writes[k].file \in bad
         THEN [w EXCEPT !.attempts = Append(@, writes[k].file), !.thrown = TRUE]
         ELSE WriteAll([w EXCEPT !.files = WriteFile(@, writes[k].file, writes[k].x.v),
                                 !.attempts = Append(@, writes[k].file)],
                       writes, k + 1, bad)

\* the paths of `bad` other than side files: the extraction directory itself
\* (fs.mkdirSync throws) and the flow file of the entity (it cannot be parsed)
ExtractedDir == <<".">>
FlowFile == <<".", ".", "/", "*", ".", "y", "a", "m", "l">>

\* the body of flowNodes.forEach: an exception of mkdirSync or writeFileSync
\* leaves the callback and the forEach. st = [acc, attempts, thrown]
ExtractNodeOrThrow(st, node, bad) ==
    IF st.thrown THEN st
    ELSE IF ~IsExtractableType(node) \/ ~(IsVue(node) \/ IsFun(node))
    THEN [st EXCEPT !.acc = ExtractNode(st.acc, node)]
    ELSE
        LET sanitizedName == Sanitize(NodeName(node))
            fileNames == Append(st.acc.fileNames, sanitizedName)
            fileName == FileNameOf(sanitizedName, NameCount(fileNames, sanitizedName))
            w == WriteAll([files |-> st.acc.files, attempts |-> st.attempts,
                           thrown |-> FALSE],
                          SideWrites(node, fileName), 1, bad)
        IN  IF ~st.acc.dirExists /\ ExtractedDir \in bad
            THEN [acc |-> [st.acc EXCEPT !.fileNames = fileNames],
                  attempts |-> st.attempts,
                  thrown |-> TRUE]
            ELSE IF w.thrown
            THEN [acc |-> [st.acc EXCEPT !.fileNames = fileNames, !.dirExists = TRUE,
                                         !.count = @ + 1, !.files = w.files],
                  attempts |-> w.attempts,
                  thrown |-> TRUE]
            ELSE [acc |-> ExtractNode(st.acc, node), attempts |-> w.attempts,
                  thrown |-> FALSE]

RECURSIVE ExtractNodesOrThrow(_, _, _, _)
ExtractNodesOrThrow(flowNodes, i, st, bad) ==
    IF i > Len(flowNodes) THEN st
    ELSE ExtractNodesOrThrow(flowNodes, i + 1, ExtractNodeOrThrow(st, flowNodes[i], bad), bad)

NoPass(d) ==
    [dir |-> d, attempts |-> <<>>, thrown |-> FALSE, manifestWritten |-> FALSE,
     cleanupRan |-> FALSE]

\* one call of extractFunctionsAndTemplates of the installed handler, with the
\* paths of `bad` unwritable: the directory after the call, the writes that were
\* attempted, and whether the call threw
ExtractOrThrow(handler, flowNodes, d, bad) ==
    IF Len(flowNodes) = 0 THEN NoPass(d)
    ELSE
        LET d0 == IF handler = "gc" THEN d ELSE NoDir
            st == ExtractNodesOrThrow(flowNodes, 1,
                      [acc |-> PassStart(d0), attempts |-> <<>>, thrown |-> FALSE], bad)
            acc == st.acc
        IN  IF st.thrown
            THEN [dir |-> [dirExists |-> acc.dirExists, files |-> acc.files,
                           manifest |-> d0.manifest],
                  attempts |-> st.attempts, thrown |-> TRUE,
                  manifestWritten |-> FALSE, cleanupRan |-> FALSE]
            ELSE [dir |-> [dirExists |-> acc.dirExists,
                           files |-> IF handler = "gc"
                                     THEN cleanupUnusedFiles(acc.dirExists, acc.files,
                                                             acc.entries)
                                     ELSE acc.files,
                           manifest |-> SaveManifest(d0.manifest, acc)],
                  attempts |-> st.attempts, thrown |-> FALSE,
                  manifestWritten |-> acc.count > 0,
                  cleanupRan |-> handler = "gc"]

---------------------------------------------------------------------------
(* Bounds and the inputs the checks draw from *)

MaxNodes == 3   \* longest node list of a single pass (SpecPass)
MaxSteps == 3   \* deploys and external file changes in one behaviour (Spec)

IdOf == <<"n1", "n2", "n3", "n4", "n5">>

Foo == <<"F", "o", "o">>
Bar == <<"B", "a", "r">>
FooParen2 == <<"F", "o", "o", "(", "2", ")">>
FooInitialize == <<"F", "o", "o", ".", "i", "n", "i", "t", "i", "a", "l", "i", "z", "e">>
FSlashO == <<"F", "/", "o">>
FColonO == <<"F", ":", "o">>

\* field contents; the digit of the node keeps the contents of two nodes apart
Body(k) == <<" ", "f">> \o Dec(k)
Setup(k) == <<"i">> \o Dec(k)
Close(k) == <<"c">> \o Dec(k)
Doc(k) == <<"d">> \o Dec(k) \o <<"\n">>
Markup(k) == TemplateTag \o Dec(k)
Blank == <<" ", "\n">>
PlainHtml == <<"<", "p", ">">>

Node(id, type, name, func, format, initialize, finalize, info) ==
    [id |-> id, type |-> type, name |-> name, func |-> func, format |-> format,
     initialize |-> initialize, finalize |-> finalize, info |-> info]

\* the shapes of node the lists are built from
Shaped(k, name, shape) ==
    CASE shape = "code" ->
            Node(IdOf[k], "function", Str(name), Str(Body(k)), Undef, Undef, Undef, Undef)
      [] shape = "full" ->
            Node(IdOf[k], "function", Str(name), Str(Body(k)), Undef,
                 Str(Setup(k)), Str(Close(k)), Str(Doc(k)))
      [] shape = "setup" ->
            Node(IdOf[k], "function", Str(name), Undef, Undef, Str(Setup(k)), Undef, Undef)
      [] shape = "blank" ->
            Node(IdOf[k], "function", Str(name), Str(Blank), Undef, Undef, Undef, Str(Blank))
      [] shape = "vue" ->
            Node(IdOf[k], "ui-template", Str(name), Undef, Str(Markup(k)), Undef, Undef,
                 Str(Doc(k)))
      [] shape = "other" ->
            Node(IdOf[k], "debug", Str(name), Str(Body(k)), Undef, Undef, Undef, Undef)

\* node lists over positions 1..n, the node at position k has id IdOf[k];
\* kinds is a set of <<name, shape>>
ListsOf(n, kinds) ==
    {[k \in 1..n |-> Shaped(k, c[k][1], c[k][2])] : c \in [1..n -> kinds]}

\* equal names, names that look like a suffixed name or like a side file of
\* another node, names that sanitize to the same string, a node that is skipped
NamingKinds ==
    {<<Foo, "code">>, <<Foo, "setup">>, <<Foo, "blank">>, <<FooParen2, "code">>,
     <<FooInitialize, "code">>, <<FSlashO, "code">>, <<FColonO, "code">>}

NamingLists == UNION {ListsOf(n, NamingKinds) : n \in 1..MaxNodes}

\* two nodes of one name, of the types and kinds the naming lists leave out
MixedLists == ListsOf(2, {Foo} \X {"code", "full", "vue", "other"})

\* one node, every combination of the fields the classifier reads
OptNames == {Undef, Str(<<>>), Str(Foo)}
OptFunc == {Undef, Str(Blank), Str(Body(1))}
OptFormat == {Undef, Str(PlainHtml), Str(Markup(1)), Str(<<" ">> \o ScriptTag)}
OptSetup == {Undef, Str(Setup(1))}
OptClose == {Undef, Str(Close(1))}
OptInfo == {Undef, Str(Blank), Str(Doc(1))}
NodeTypes == {"function", "ui-template", "debug"}

ClassifyLists ==
    {<<Node("n1", t, nm, fu, fo, se, cl, inf)>> :
        t \in NodeTypes, nm \in OptNames, fu \in OptFunc, fo \in OptFormat,
        se \in OptSetup, cl \in OptClose, inf \in OptInfo}

\* the scenario of the README: one function node named "Process Data"
ProcessData == <<"P", "r", "o", "c", "e", "s", "s", " ", "D", "a", "t", "a">>
Process_Data == <<"P", "r", "o", "c", "e", "s", "s", "_", "D", "a", "t", "a">>
ReturnMsg == <<"r", "e", "t", "u", "r", "n", " ", "m", "s", "g", ";">>

ScenarioLists ==
    {<<Node("n1", "function", Str(ProcessData), Str(ReturnMsg), Undef, Undef, Undef, Undef)>>}

\* a function node and a ui-template node whose names are absent or empty, and
\* a node with a character of the class in its name
UnnamedLists ==
    {<<Node("n1", "function", nm, Str(Body(1)), Undef, Undef, Undef, Undef),
       Node("n2", "ui-template", nm, Undef, Str(Markup(2)), Undef, Undef, Undef),
       Shaped(3, FColonO, "code")>> :
        nm \in {Undef, Str(<<>>)}}

PassLists ==
    NamingLists \cup MixedLists \cup ClassifyLists \cup ScenarioLists \cup UnnamedLists

\* the node lists of the deploys of Spec: node n1, node n2 or both
FlowFirst == {Shaped(1, Foo, shape) : shape \in {"code", "full", "blank"}}
FlowSecond == {Shaped(2, Foo, "code"), Shaped(2, Bar, "code"), Shaped(2, Bar, "vue")}
FlowLists ==
    {<<a>> : a \in FlowFirst} \cup {<<b>> : b \in FlowSecond}
        \cup {<<a, b>> : a \in FlowFirst, b \in FlowSecond}

EditTexts == {<<"z">>, <<>>}

\* the names a node is renamed to
RenameTo == {Foo, Bar}

---------------------------------------------------------------------------
(* src/index.js: the configuration and the two batches *)

\* the entity files of the split tree: "a" is a tab file of src/tabs, "b" a
\* subflow file of src/subflows; the tabs directory is processed first
EntityNames == {"a", "b"}

\* an entity: `there` is whether its flow file exists; the other fields are its
\* node list and its extraction directory
NoEntity ==
    [there |-> FALSE, nodes |-> <<>>, dirExists |-> FALSE, files |-> EmptyMap,
     manifest |-> NoManifest]

NoTree == [e \in EntityNames |-> NoEntity]

DirOf(ent) == [dirExists |-> ent.dirExists, files |-> ent.files, manifest |-> ent.manifest]

WithDir(ent, d) ==
    [ent EXCEPT !.dirExists = d.dirExists, !.files = d.files, !.manifest = d.manifest]

\* a flag of the configuration file is "true", "false" or "absent"
FlagValues == {"true", "false", "absent"}

DEFAULT_CFG == [extractFunctionsTemplates |-> "true", restoreFunctionsTemplates |-> "false"]

\* no configuration file, or one without the two flags
NoCfg == [extractFunctionsTemplates |-> "absent", restoreFunctionsTemplates |-> "absent"]

\* cfg = { ...DEFAULT_CFG, ...loadedCfg }
loadSplitterConfig(file) ==
    [k \in DOMAIN file |-> IF file[k] = "absent" THEN DEFAULT_CFG[k] ELSE file[k]]

\* the body of files.forEach in processFlowDirectory for the flow file of e:
\* try { parse, extract } catch { warn }
ProcessFile(handler, t, bad, e) ==
    IF ~t[e].there THEN NoPass(DirOf(t[e]))
    ELSE IF FlowFile \in bad[e] THEN [NoPass(DirOf(t[e])) EXCEPT !.thrown = TRUE]
    ELSE ExtractOrThrow(handler, t[e].nodes, DirOf(t[e]), bad[e])

\* mutant: without the try/catch the first exception ends the batch of files
processFlowDirectory_StopAtThrow(handler, t, bad) ==
    [e \in EntityNames |->
        IF e # "a" /\ ProcessFile(handler, t, bad, "a").thrown
        THEN NoPass(DirOf(t[e]))
        ELSE ProcessFile(handler, t, bad, e)]

\* processFlowDirectory, for the tabs directory and then the subflows directory
processFlowDirectory(handler, t, bad) ==
    [e \in EntityNames |-> ProcessFile(handler, t, bad, e)]

\* mutant: no directory is removed
cleanupOrphanedDirectories_KeepAll(t) == t

\* cleanupOrphanedDirectories: a subdirectory without a flow file is removed
cleanupOrphanedDirectories(t) ==
    [e \in EntityNames |-> IF t[e].there THEN t[e] ELSE WithDir(t[e], NoDir)]

\* the calls of extractFunctionsTemplatesFromSplitFiles in the order of the code:
\* the root of "a" is the tabs directory, the root of "b" the subflows directory
BatchOrder ==
    <<[call |-> "processFlowDirectory", root |-> "a"],
      [call |-> "processFlowDirectory", root |-> "b"],
      [call |-> "cleanupOrphanedDirectories", root |-> "a"],
      [call |-> "cleanupOrphanedDirectories", root |-> "b"]>>

\* extractFunctionsTemplatesFromSplitFiles: the tree after it, the pass of each
\* entity, and the entities the handler was called for
extractFunctionsTemplatesFromSplitFiles(c, handler, t, bad) ==
    IF c.extractFunctionsTemplates = "false"
    THEN [tree |-> t, pass |-> [e \in EntityNames |-> NoPass(DirOf(t[e]))], called |-> {},
          order |-> <<>>]
    ELSE
        LET pass == processFlowDirectory(handler, t, bad)
        IN  [tree |-> cleanupOrphanedDirectories(
                          [e \in EntityNames |-> WithDir(t[e], pass[e].dir)]),
             pass |-> pass,
             called |-> {e \in EntityNames : t[e].there},
             order |-> BatchOrder]

\* mutant: the batch stops at the first entity whose manifest it cannot use
restoreIntoFlowDirectory_StopAtBad(handler, t) ==
    [e \in EntityNames |->
        IF t[e].there /\ handler = "fresh"
            /\ \A o \in EntityNames : t[o].there => t[o].manifest.state = "ok"
        THEN [t[e] EXCEPT !.nodes = restoreFunctionsAndTemplates(t[e].nodes, DirOf(t[e]))]
        ELSE t[e]]

\* restoreIntoFlowDirectory: for each flow file, try { restore, write the flow
\* file } catch { warn }. src/functions-templates-handler.js exports no
\* restoreFunctionsAndTemplates: with it the call is a TypeError, which the
\* catch logs, and the flow file is not written.
restoreIntoFlowDirectory(handler, t) ==
    [e \in EntityNames |->
        IF t[e].there /\ handler = "fresh"
        THEN [t[e] EXCEPT !.nodes = restoreFunctionsAndTemplates(t[e].nodes, DirOf(t[e]))]
        ELSE t[e]]

\* restoreFunctionsTemplatesIntoSplitFiles: the tree after it, the entities the
\* batch reached, and the flow files it wrote
restoreFunctionsTemplatesIntoSplitFiles(c, handler, t) ==
    IF c.restoreFunctionsTemplates = "false"
    THEN [tree |-> t, called |-> {}, rewritten |-> {}]
    ELSE [tree |-> restoreIntoFlowDirectory(handler, t),
          called |-> {e \in EntityNames : t[e].there},
          rewritten |-> {e \in EntityNames : t[e].there /\ handler = "fresh"}]

\* the responses manualReload sends when step `fail` fails
R200 == [status |-> 200, success |-> TRUE]
R500 == [status |-> 500, success |-> FALSE]

\* the steps of manualReload and of the rebuild branch of onFlowReload that can
\* fail: reading the configuration, listing a directory in the restore batch,
\* constructFlowSetFromTreeFiles returning nothing or throwing,
\* constructMonolithFileFromFlowSet throwing, loadFlows rejecting
Throwing == {"config", "restoreDir", "flowSetThrows", "monolith", "loadFlows"}
FailPoints == Throwing \cup {"flowSetNull", "none"}

\* mutant: the branch for a missing flow set sends its response and falls through
ReloadResponses_NoReturn(fail) ==
    IF fail = "flowSetNull" THEN <<R500, R500>>
    ELSE IF fail = "none" THEN <<R200>> ELSE <<R500>>

\* manualReload: `return res.status(500)` for a missing flow set, res.json at the
\* end of the try block, res.status(500) in the catch block
ReloadResponses(fail) ==
    (IF fail = "flowSetNull" THEN <<R500>> ELSE <<>>)
        \o (IF fail = "none" THEN <<R200>> ELSE <<>>)
        \o (IF fail \in Throwing THEN <<R500>> ELSE <<>>)

\* restore batch, flow set, monolith, loadFlows, up to the step that fails
RebuildSteps(handler, file, t, fail) ==
    LET c == loadSplitterConfig(file)
        r == IF fail \in {"config", "restoreDir"}
             THEN [tree |-> t, called |-> {}, rewritten |-> {}]
             ELSE restoreFunctionsTemplatesIntoSplitFiles(c, handler, t)
        built == fail \in {"loadFlows", "none"}
    IN  [tree |-> r.tree, restored |-> r.called, rewritten |-> r.rewritten,
         monolith |-> IF built THEN "written" ELSE "kept",
         loadFlows |-> IF built THEN 1 ELSE 0]

PassLog(pass) ==
    [attempts |-> pass.attempts, thrown |-> pass.thrown,
     manifestWritten |-> pass.manifestWritten, cleanupRan |-> pass.cleanupRan]

NoBad == [e \in EntityNames |-> {}]

\* what an invocation did: `tree` and `cfg` are the disk before it
IoOf(op, t, c) ==
    [op |-> op, fail |-> "none", tree |-> t, cfg |-> c, bad |-> NoBad,
     extracted |-> {}, pass |-> [e \in EntityNames |-> PassLog(NoPass(NoDir))],
     restored |-> {}, rewritten |-> {}, responses |-> <<>>, loadFlows |-> 0,
     monolith |-> "kept", config |-> FALSE, order |-> <<>>]

NoIo == IoOf("init", NoTree, NoCfg)

\* the configuration files SpecIndex starts from: none, or one that turns
\* restoration on
RestoreOn == [extractFunctionsTemplates |-> "absent", restoreFunctionsTemplates |-> "true"]
CfgChoices == {NoCfg, RestoreOn}

MaxOps == 3     \* invocations of the plugin and outside changes (SpecIndex)

\* the event loop before the first event: no invocation yet, no timer and no
\* loadFlows promise pending, no monolithic document, nothing logged
NoRun ==
    [n |-> 0, timers |-> {}, loading |-> {}, mono |-> FALSE, log |-> <<>>,
     flows |-> <<>>]

\* the flows of a deploy: the nodes of tab "a" and of subflow "b"
IndexListsA ==
    {<<Shaped(1, Foo, "code")>>, <<Shaped(1, Foo, "full"), Shaped(2, Bar, "code")>>}
IndexListsB == {<<Shaped(3, Foo, "code")>>}

\* the paths of `b` fail for entity "a" during a pass
BadOf(b) == [e \in EntityNames |-> IF e = "a" THEN b ELSE {}]

\* the deploys of tab "a" and what fails during its pass: nothing, the write of
\* a side file, the creation of the extraction directory, the parse of the
\* flow file
SplitChoices ==
    {<<la, BadOf({})>> : la \in IndexListsA}
        \cup {<<<<Shaped(1, Foo, "code")>>, BadOf(b)>> :
                b \in {{CodeName(Foo, FALSE)}, {ExtractedDir}, {FlowFile}}}
        \cup {<<<<Shaped(1, Foo, "full"), Shaped(2, Bar, "code")>>,
                 BadOf({InitializeName(Foo)})>>}

---------------------------------------------------------------------------
(* State, history and actions *)

Dir == [dirExists |-> dirExists, files |-> files, manifest |-> manifest]

Op(op) == [op |-> op, file |-> <<>>, text |-> <<>>]

Snapshot ==
    [nodes |-> nodes, dirExists |-> dirExists, files |-> files,
     manifest |-> manifest, op |-> last.op, file |-> last.file, text |-> last.text]

Start(lists) ==
    /\ variant \in {"gc", "fresh"}
    /\ nodes \in lists
    /\ dirExists = FALSE
    /\ files = EmptyMap
    /\ manifest = NoManifest
    /\ last = Op("init")
    /\ prev = [nodes |-> <<>>, dirExists |-> FALSE, files |-> EmptyMap,
               manifest |-> NoManifest, op |-> "init", file |-> <<>>, text |-> <<>>]
    /\ steps = 0
    /\ tree = NoTree
    /\ cfg = NoCfg
    /\ io = NoIo
    /\ run = NoRun

\* the entity has not been deployed yet
Init == Start({<<>>})

\* the entity file holds a node list and no pass has run yet
InitPass == Start(PassLists)

SetDir(d) ==
    /\ dirExists' = d.dirExists
    /\ files' = d.files
    /\ manifest' = d.manifest

\* mutant: the pass takes the code it has written out of the node
NodeAfterExtract_Strip(node) ==
    IF IsExtractableType(node) /\ (IsVue(node) \/ IsFun(node))
    THEN [node EXCEPT !.func = Undef, !.format = Undef]
    ELSE node

\* the node record after the forEach callback of extractFunctionsAndTemplates:
\* the callback reads id, type, name, format, func, initialize, finalize and
\* info and assigns to none of them
NodeAfterExtract(node) == node

\* the node list after the pass; processFlowDirectory does not write it back
NodesAfterExtract(flowNodes) ==
    [i \in 1..Len(flowNodes) |-> NodeAfterExtract(flowNodes[i])]

PassResult(flowNodes) ==
    IF variant = "gc"
    THEN extractFunctionsAndTemplates(flowNodes, Dir)
    ELSE extractFunctionsAndTemplatesFresh(flowNodes, Dir)

\* a deploy: the flow-set manager rewrites the entity file with a new node list
\* and the extraction pass runs on it
Deploy ==
    /\ steps < MaxSteps
    /\ \E list \in FlowLists :
          /\ list # nodes
          /\ nodes' = NodesAfterExtract(list)
          /\ SetDir(PassResult(list))
    /\ last' = Op("deploy")
    /\ prev' = Snapshot
    /\ steps' = steps + 1
    /\ UNCHANGED variant
    /\ UNCHANGED indexVars

\* flows started again with the entity file unchanged: the pass of the installed handler
Extract ==
    /\ Len(nodes) > 0
    /\ ~(last.op = "extract" /\ prev.op = "extract")
    /\ SetDir(PassResult(nodes))
    /\ nodes' = NodesAfterExtract(nodes)
    /\ last' = Op("extract")
    /\ prev' = Snapshot
    /\ UNCHANGED <<variant, steps>>
    /\ UNCHANGED indexVars

\* mutant: restore deletes a manifest it cannot parse
Restore_DropsBadManifest ==
    /\ Len(nodes) > 0
    /\ ~(last.op = "restore" /\ prev.op = "restore")
    /\ nodes' = collectFunctionsAndTemplates(nodes, Dir)
    /\ manifest' = IF manifest.state = "corrupt" THEN NoManifest ELSE manifest
    /\ last' = Op("restore")
    /\ prev' = Snapshot
    /\ UNCHANGED <<variant, dirExists, files, steps>>
    /\ UNCHANGED indexVars

\* the restore operation of the handler on the entity's node list
Restore ==
    /\ Len(nodes) > 0
    /\ ~(last.op = "restore" /\ prev.op = "restore")
    /\ nodes' = collectFunctionsAndTemplates(nodes, Dir)
    /\ last' = Op("restore")
    /\ prev' = Snapshot
    /\ UNCHANGED <<variant, dirExists, files, manifest, steps>>
    /\ UNCHANGED indexVars

\* a side file is edited outside the program
EditFile ==
    /\ steps < MaxSteps
    /\ \E f \in DOMAIN files, t \in EditTexts :
          /\ files[f] # t
          /\ files' = WriteFile(files, f, t)
          /\ last' = [op |-> "edit", file |-> f, text |-> t]
    /\ prev' = Snapshot
    /\ steps' = steps + 1
    /\ UNCHANGED <<variant, nodes, dirExists, manifest>>
    /\ UNCHANGED indexVars

\* a side file is deleted outside the program
DeleteFile ==
    /\ steps < MaxSteps
    /\ \E f \in DOMAIN files :
          /\ files' = RemoveFile(files, f)
          /\ last' = [op |-> "delete", file |-> f, text |-> <<>>]
    /\ prev' = Snapshot
    /\ steps' = steps + 1
    /\ UNCHANGED <<variant, nodes, dirExists, manifest>>
    /\ UNCHANGED indexVars

\* a node of the entity file is renamed outside the program, its id unchanged
Rename ==
    /\ steps < MaxSteps
    /\ \E i \in 1..Len(nodes), name \in RenameTo :
          /\ nodes[i].name # Str(name)
          /\ nodes' = [nodes EXCEPT ![i].name = Str(name)]
    /\ last' = Op("rename")
    /\ prev' = Snapshot
    /\ steps' = steps + 1
    /\ UNCHANGED <<variant, dirExists, files, manifest>>
    /\ UNCHANGED indexVars

\* a node is deleted from the entity file outside the program
DropNode ==
    /\ steps < MaxSteps
    /\ Len(nodes) >= 2
    /\ \E i \in 1..Len(nodes) :
          nodes' = [k \in 1..(Len(nodes) - 1) |-> IF k < i THEN nodes[k] ELSE nodes[k + 1]]
    /\ last' = Op("drop")
    /\ prev' = Snapshot
    /\ steps' = steps + 1
    /\ UNCHANGED <<variant, dirExists, files, manifest>>
    /\ UNCHANGED indexVars

\* the manifest file is damaged outside the program: JSON.parse throws on it
CorruptManifest ==
    /\ steps < MaxSteps
    /\ manifest.state = "ok"
    /\ manifest' = [manifest EXCEPT !.state = "corrupt"]
    /\ last' = Op("corrupt")
    /\ prev' = Snapshot
    /\ steps' = steps + 1
    /\ UNCHANGED <<variant, nodes, dirExists, files>>
    /\ UNCHANGED indexVars

Next ==
    \/ Deploy \/ Extract \/ Restore
    \/ EditFile \/ DeleteFile \/ Rename \/ DropNode \/ CorruptManifest

Spec == Init /\ [][Next]_vars

NextPass == Extract \/ Restore

SpecPass == InitPass /\ [][NextPass]_vars


---------------------------------------------------------------------------
(* src/index.js: onFlowReload, manualReload *)

Io(op) == IoOf(op, tree, cfg)

RebuildOps == {"rebuild", "reload"}

\* the behaviour ends with a rebuild or reload that failed
MayStep == steps < MaxOps /\ io.fail = "none"

\* a rebuild or reload is not counted in steps; it follows a deploy or a change
\* made outside the program
MayRebuild == io.op \notin RebuildOps

\* the plugin is installed, nothing has been deployed yet
InitIndex ==
    /\ variant \in {"gc", "fresh"}
    /\ nodes = <<>>
    /\ dirExists = FALSE
    /\ files = EmptyMap
    /\ manifest = NoManifest
    /\ last = Op("init")
    /\ prev = [nodes |-> <<>>, dirExists |-> FALSE, files |-> EmptyMap,
               manifest |-> NoManifest, op |-> "init", file |-> <<>>, text |-> <<>>]
    /\ steps = 0
    /\ tree = NoTree
    /\ cfg \in CfgChoices
    /\ io = IoOf("init", NoTree, cfg)
    /\ run = NoRun

\* what a split pass did: `r` is the result of the extraction batch
SplitIo(before, bad, r) ==
    [before EXCEPT
        !.bad = bad, !.extracted = r.called,
        !.pass = [e \in EntityNames |-> PassLog(r.pass[e])],
        !.config = TRUE, !.monolith = "deleted",
        !.order = r.order]

\* onFlowReload with flows: the flow-set manager writes the flow files of the
\* deploy, the configuration is written, extraction runs over the tree, the
\* monolithic document is deleted. A subflow that is not in the deploy keeps its
\* flow file or loses it (`gone`); no entity is renamed here, so
\* cleanupRenamedFlows finds nothing to remove.
SplitPass ==
    /\ MayStep
    /\ \E choice \in SplitChoices, lb \in IndexListsB \cup {<<>>}, gone \in BOOLEAN :
          LET la == choice[1]
              bad == choice[2]
              c == loadSplitterConfig(cfg)
              written ==
                  [tree EXCEPT
                      !["a"] = [@ EXCEPT !.there = TRUE, !.nodes = la],
                      !["b"] = IF lb # <<>> THEN [@ EXCEPT !.there = TRUE, !.nodes = lb]
                               ELSE IF gone THEN [@ EXCEPT !.there = FALSE, !.nodes = <<>>]
                               ELSE @]
              r == extractFunctionsTemplatesFromSplitFiles(c, variant, written, bad)
          IN  /\ gone => (lb = <<>> /\ tree["b"].there)
              /\ tree' = r.tree
              /\ cfg' = c
              /\ io' = SplitIo(Io("split"), bad, r)
    /\ steps' = steps + 1
    /\ UNCHANGED <<variant, run, entityVars>>

\* onFlowReload without flows: restore, rebuild the monolithic document, write
\* the configuration, loadFlows
RebuildPass ==
    /\ MayRebuild
    /\ \E fail \in FailPoints :
          LET r == RebuildSteps(variant, cfg, tree, fail)
          IN  /\ fail = "restoreDir" =>
                    loadSplitterConfig(cfg).restoreFunctionsTemplates # "false"
              /\ tree' = r.tree
              /\ cfg' = IF r.monolith = "written" THEN loadSplitterConfig(cfg) ELSE cfg
              /\ io' = [Io("rebuild") EXCEPT
                            !.fail = fail, !.restored = r.restored,
                            !.rewritten = r.rewritten, !.monolith = r.monolith,
                            !.config = (r.monolith = "written"),
                            !.loadFlows = r.loadFlows]
    /\ UNCHANGED <<variant, run, entityVars, steps>>

\* POST /flow-splitter/reload
ManualReload ==
    /\ MayRebuild
    /\ \E fail \in FailPoints :
          LET r == RebuildSteps(variant, cfg, tree, fail)
          IN  /\ fail = "restoreDir" =>
                    loadSplitterConfig(cfg).restoreFunctionsTemplates # "false"
              /\ tree' = r.tree
              /\ io' = [Io("reload") EXCEPT
                            !.fail = fail, !.restored = r.restored,
                            !.rewritten = r.rewritten, !.monolith = r.monolith,
                            !.loadFlows = r.loadFlows,
                            !.responses = ReloadResponses(fail)]
    /\ UNCHANGED <<variant, run, entityVars, cfg, steps>>

\* a side file of an entity is edited outside the program
EditSideFile ==
    /\ MayStep
    /\ \E e \in EntityNames, t \in {<<"z">>} :
          \E f \in DOMAIN tree[e].files :
              /\ tree[e].files[f] # t
              /\ tree' = [tree EXCEPT ![e].files = WriteFile(@, f, t)]
    /\ io' = Io("edit")
    /\ steps' = steps + 1
    /\ UNCHANGED <<variant, run, entityVars, cfg>>

\* the manifest of an entity is damaged outside the program
CorruptManifestOf ==
    /\ MayStep
    /\ \E e \in EntityNames :
          /\ tree[e].manifest.state = "ok"
          /\ tree' = [tree EXCEPT ![e].manifest.state = "corrupt"]
    /\ io' = Io("corrupt")
    /\ steps' = steps + 1
    /\ UNCHANGED <<variant, run, entityVars, cfg>>

\* the user edits a flag of .config.flow-splitter.json
SetCfg ==
    /\ MayStep
    /\ \E k \in DOMAIN cfg, v \in FlagValues :
          /\ cfg[k] # v
          /\ cfg' = [cfg EXCEPT ![k] = v]
    /\ io' = Io("cfg")
    /\ steps' = steps + 1
    /\ UNCHANGED <<variant, run, entityVars, tree>>

NextIndex ==
    \/ SplitPass \/ RebuildPass \/ ManualReload
    \/ EditSideFile \/ CorruptManifestOf \/ SetCfg

SpecIndex == InitIndex /\ [][NextIndex]_vars

---------------------------------------------------------------------------
(* src/index.js: onFlowReload and manualReload as async functions *)

MaxCalls == 3   \* invocations of the two handlers in one behaviour (SpecAsync)

\* one call of an invocation: `inv` numbers the invocations, h is the handler
Ev(inv, h, act) == [inv |-> inv, h |-> h, act |-> act]

Calls(inv, h, acts) == [i \in 1..Len(acts) |-> Ev(inv, h, acts[i])]

SplitCalls_ExtractFirst(c) ==
    (IF c.extractFunctionsTemplates = "false" THEN <<>>
     ELSE <<"extractFunctionsAndTemplates">>)
        \o <<"cleanupRenamedFlows", "constructTreeFilesFromFlowSet", "writeSplitterConfig">>

\* onFlowReload with flows, up to `await delay(150)`
SplitCalls(c) ==
    <<"cleanupRenamedFlows", "constructTreeFilesFromFlowSet", "writeSplitterConfig">>
        \o (IF c.extractFunctionsTemplates = "false" THEN <<>>
            ELSE <<"extractFunctionsAndTemplates">>)

\* the calls manualReload and the rebuild branch of onFlowReload share, up to
\* the flow set; `return` when there is none
RestoreCalls(c, fail) ==
    (IF c.restoreFunctionsTemplates = "false" THEN <<>>
     ELSE <<"restoreFunctionsAndTemplates">>)
        \o <<"constructFlowSetFromTreeFiles">>

\* onFlowReload without flows, up to the call of loadFlows
RebuildCalls(c, fail) ==
    RestoreCalls(c, fail)
        \o (IF fail = "none"
            THEN <<"constructMonolithFileFromFlowSet", "writeSplitterConfig", "loadFlows">>
            ELSE <<>>)

\* manualReload, up to `await PRIVATE_RED.nodes.loadFlows(true)` or the response
ReloadCalls(c, fail) ==
    RestoreCalls(c, fail)
        \o (IF fail = "none"
            THEN <<"constructMonolithFileFromFlowSet", "loadFlows">>
            ELSE <<"res.status(500)">>)

\* the flow set is built, or constructFlowSetFromTreeFiles returns nothing
AsyncFails == {"none", "flowSetNull"}

\* the event 'flows:started' with flows (a deploy: the runtime writes the
\* monolithic document): onFlowReload runs to its `await delay(150)`
FlowsStarted ==
    /\ run.n < MaxCalls
    /\ \E la \in IndexListsA :
          LET c == loadSplitterConfig(cfg)
              written == [tree EXCEPT !["a"] = [@ EXCEPT !.there = TRUE, !.nodes = la]]
              r == extractFunctionsTemplatesFromSplitFiles(c, variant, written, NoBad)
          IN  /\ tree' = r.tree
              /\ cfg' = c
              /\ run' = [run EXCEPT
                            !.n = @ + 1,
                            !.timers = @ \cup {run.n + 1},
                            !.mono = TRUE,
                            !.flows = Append(@, "some"),
                            !.log = @ \o Calls(run.n + 1, "onFlowReload", SplitCalls(c))]
    /\ UNCHANGED <<variant, entityVars, steps, io>>

\* the timer of a split pass fires: fs.unlinkSync of the monolithic document
\* (when the file is not there the exception is caught and logged)
DelayElapsed ==
    /\ \E i \in run.timers :
          run' = [run EXCEPT
                     !.timers = @ \ {i},
                     !.mono = FALSE,
                     !.log = Append(@, Ev(i, "onFlowReload", "unlinkSync"))]
    /\ UNCHANGED <<variant, entityVars, steps, io, tree, cfg>>

\* the event 'flows:started' without flows: onFlowReload runs to the call of
\* loadFlows, whose promise it does not await
FlowsStartedEmpty ==
    /\ run.n < MaxCalls
    /\ \E fail \in AsyncFails :
          LET c == loadSplitterConfig(cfg)
              r == RebuildSteps(variant, cfg, tree, fail)
          IN  /\ tree' = r.tree
              /\ cfg' = IF fail = "none" THEN c ELSE cfg
              /\ run' = [run EXCEPT
                            !.n = @ + 1,
                            !.loading = IF fail = "none"
                                        THEN @ \cup {[inv |-> run.n + 1, h |-> "onFlowReload"]}
                                        ELSE @,
                            !.mono = IF fail = "none" THEN TRUE ELSE @,
                            !.flows = Append(@, "empty"),
                            !.log = @ \o Calls(run.n + 1, "onFlowReload",
                                                RebuildCalls(c, fail))]
    /\ UNCHANGED <<variant, entityVars, steps, io>>

\* POST /flow-splitter/reload: manualReload runs to `await loadFlows(true)`, or
\* to the response for a missing flow set
ReloadRequest ==
    /\ run.n < MaxCalls
    /\ \E fail \in AsyncFails :
          LET c == loadSplitterConfig(cfg)
              r == RebuildSteps(variant, cfg, tree, fail)
          IN  /\ tree' = r.tree
              /\ run' = [run EXCEPT
                            !.n = @ + 1,
                            !.loading = IF fail = "none"
                                        THEN @ \cup {[inv |-> run.n + 1, h |-> "manualReload"]}
                                        ELSE @,
                            !.mono = IF fail = "none" THEN TRUE ELSE @,
                            !.flows = Append(@, "request"),
                            !.log = @ \o Calls(run.n + 1, "manualReload",
                                                ReloadCalls(c, fail))]
    /\ UNCHANGED <<variant, entityVars, steps, io, cfg>>

\* the promise of loadFlows resolves: manualReload goes on to res.json, the
\* rebuild branch of onFlowReload to its log line
LoadFlowsResolved ==
    /\ \E p \in run.loading :
          run' = [run EXCEPT
                     !.loading = @ \ {p},
                     !.log = @ \o Calls(p.inv, p.h,
                                 IF p.h = "manualReload"
                                 THEN <<"loadFlows resolved", "res.json">>
                                 ELSE <<"loadFlows resolved">>)]
    /\ UNCHANGED <<variant, entityVars, steps, io, tree, cfg>>

NextAsync ==
    \/ FlowsStarted \/ DelayElapsed \/ FlowsStartedEmpty
    \/ ReloadRequest \/ LoadFlowsResolved

SpecAsync == InitIndex /\ [][NextAsync]_vars

---------------------------------------------------------------------------
(* src/index.js: cleanupRenamedFlows and the tabs directory *)

MaxDeploys == 3     \* deploys and outside copies in one behaviour (SpecRename)

UpperCase ==
    <<"A", "B", "C", "D", "E", "F", "G", "H", "I", "J", "K", "L", "M",
      "N", "O", "P", "Q", "R", "S", "T", "U", "V", "W", "X", "Y", "Z">>
LowerCase ==
    <<"a", "b", "c", "d", "e", "f", "g", "h", "i", "j", "k", "l", "m",
      "n", "o", "p", "q", "r", "s", "t", "u", "v", "w", "x", "y", "z">>

ToLowerChar(c) ==
    IF \E i \in 1..26 : UpperCase[i] = c
    THEN LowerCase[CHOOSE i \in 1..26 : UpperCase[i] = c]
    ELSE c

\* String.prototype.toLowerCase
ToLowerCase(s) == [i \in 1..Len(s) |-> ToLowerChar(s[i])]

\* s.replace(/\s+/g, '-'): every run of white space becomes one '-'
RECURSIVE DashSpaces(_)
DashSpaces(s) ==
    IF s = <<>> THEN <<>>
    ELSE IF Head(s) \in WhiteSpace THEN <<"-">> \o DashSpaces(TrimStart(s))
    ELSE <<Head(s)>> \o DashSpaces(Tail(s))

\* a tab node of flowEventData.config.flows
Tab(id, label, normalizedLabel) ==
    [id |-> id, type |-> "tab", label |-> label, normalizedLabel |-> normalizedLabel]

\* node.normalizedLabel ||
\*     label.replace(/[\/\\:*?"<>|]/g, '-').toLowerCase().replace(/\s+/g, '-')
ExpectedFilename(node) ==
    IF Truthy(node.normalizedLabel) THEN node.normalizedLabel.v
    ELSE DashSpaces(ToLowerCase(Sanitize(
             IF Truthy(node.label) THEN node.label.v ELSE node.id)))

\* tabsIdToFilename: the expected file name of each tab of the deploy
tabsIdToFilename(flowNodes) ==
    LET tabs == {i \in 1..Len(flowNodes) : flowNodes[i].type = "tab" /\ flowNodes[i].id # <<>>}
    IN  [id \in {flowNodes[i].id : i \in tabs} |->
            ExpectedFilename(flowNodes[CHOOSE i \in tabs :
                /\ flowNodes[i].id = id
                /\ \A j \in tabs : flowNodes[j].id = id => j <= i])]

\* a file name of src/tabs that is not taken: no flow file, no directory
NoFile ==
    [there |-> FALSE, id |-> <<>>, nodes |-> <<>>, dirExists |-> FALSE,
     files |-> EmptyMap, manifest |-> NoManifest]

\* cleanupRenamedFlowsInDir: a flow file that holds a tab of the deploy under
\* another name than the expected one is unlinked, and its directory removed.
\* t maps a base name to the flow file (the id of the tab it holds, <<>> when it
\* holds none) and the extraction directory of that name.
cleanupRenamedFlowsInDir(t, idToFilename) ==
    [f \in DOMAIN t |->
        IF /\ t[f].there
           /\ t[f].id # <<>>
           /\ t[f].id \in DOMAIN idToFilename
           /\ idToFilename[t[f].id] # <<>>
           /\ idToFilename[t[f].id] # f
        THEN NoFile
        ELSE t[f]]

cleanupRenamedFlows(flowNodes, t) ==
    cleanupRenamedFlowsInDir(t, tabsIdToFilename(flowNodes))

\* the base name the flow-set manager gives the file of a tab, as the README
\* shows it (tab "Dashboard": src/tabs/Dashboard.yaml)
ManagerFileName(node) == node.label.v

\* the nodes of every tab of a deploy, next to the tab node itself
TabNodes == <<Shaped(1, Foo, "code")>>

\* manager.constructTreeFilesFromFlowSet: the flow file of each tab is written
RECURSIVE constructTreeFilesFromFlowSet(_, _, _)
constructTreeFilesFromFlowSet(t, flowNodes, i) ==
    IF i > Len(flowNodes) THEN t
    ELSE constructTreeFilesFromFlowSet(
             [t EXCEPT ![ManagerFileName(flowNodes[i])] =
                 [@ EXCEPT !.there = TRUE, !.id = flowNodes[i].id, !.nodes = TabNodes]],
             flowNodes, i + 1)

\* extractFunctionsTemplatesFromSplitFiles over the files of src/tabs
extractTabs(c, handler, t) ==
    IF c.extractFunctionsTemplates = "false" THEN t
    ELSE [f \in DOMAIN t |->
            IF t[f].there
            THEN WithDir(t[f], ExtractOrThrow(handler, t[f].nodes, DirOf(t[f]), {}).dir)
            ELSE WithDir(t[f], NoDir)]

TabIds == {<<"t", "1">>, <<"t", "2">>}

Db == <<"d", "b">>
CapDb == <<"D", "b">>
Mx == <<"m", "x">>
Old == <<"o", "l", "d">>

TabLabels == {Db, CapDb, Mx}

\* the base names of src/tabs: the names of the tabs, and a copy made by hand
TabFiles == TabLabels \cup {Old}

\* the runtime's tab nodes carry no normalizedLabel, or the name of the manager
TabsOf(id) ==
    {Tab(id, Str(l), n) : l \in TabLabels, n \in {Undef}}
        \cup {Tab(id, Str(l), Str(l)) : l \in TabLabels}

\* the tabs of a deploy: t1, or t1 and t2 under different labels
TabFlows ==
    {<<a>> : a \in TabsOf(<<"t", "1">>)}
        \cup {<<p[1], p[2]>> :
                p \in {q \in TabsOf(<<"t", "1">>) \X TabsOf(<<"t", "2">>) :
                          q[1].label # q[2].label}}

NoTabs == [f \in TabFiles |-> NoFile]

InitRename ==
    /\ variant \in {"gc", "fresh"}
    /\ nodes = <<>>
    /\ dirExists = FALSE
    /\ files = EmptyMap
    /\ manifest = NoManifest
    /\ last = Op("init")
    /\ prev = [nodes |-> <<>>, dirExists |-> FALSE, files |-> EmptyMap,
               manifest |-> NoManifest, op |-> "init", file |-> <<>>, text |-> <<>>]
    /\ steps = 0
    /\ tree = NoTabs
    /\ cfg = NoCfg
    /\ io = [op |-> "init", tree |-> NoTabs, flows |-> <<>>, cleaned |-> NoTabs]
    /\ run = NoRun

\* onFlowReload with flows: cleanupRenamedFlows, the manager writes the flow
\* files, the configuration is written, extraction runs over src/tabs
DeployTabs ==
    /\ steps < MaxDeploys
    /\ \E flows \in TabFlows :
          LET c == loadSplitterConfig(cfg)
              cleaned == cleanupRenamedFlows(flows, tree)
              written == constructTreeFilesFromFlowSet(cleaned, flows, 1)
          IN  /\ tree' = extractTabs(c, variant, written)
              /\ cfg' = c
              /\ io' = [op |-> "deploy", tree |-> tree, flows |-> flows,
                        cleaned |-> cleaned]
    /\ steps' = steps + 1
    /\ UNCHANGED <<variant, run, entityVars>>

\* outside the program a flow file is copied under the name old, or a file
\* that holds no tab is put there
CopyFile ==
    /\ steps < MaxDeploys
    /\ ~tree[Old].there
    /\ \E f \in TabFiles :
          /\ tree[f].there
          /\ \E id \in {tree[f].id, <<>>} :
                tree' = [tree EXCEPT ![Old] = [@ EXCEPT !.there = TRUE, !.id = id,
                                                        !.nodes = tree[f].nodes]]
    /\ io' = [io EXCEPT !.op = "copy"]
    /\ steps' = steps + 1
    /\ UNCHANGED <<variant, run, entityVars, cfg>>

NextRename == DeployTabs \/ CopyFile

SpecRename == InitRename /\ [][NextRename]_vars

---------------------------------------------------------------------------
(* the two copies of extractFunctionsAndTemplates side by side *)

MaxPasses == 3      \* passes over the entity in one behaviour (SpecTwin)

\* the two handler files
Handlers == {"gc", "fresh"}

\* extractFunctionsAndTemplates of handler file h on directory d
PassOf(h, flowNodes, d) ==
    IF h = "gc"
    THEN extractFunctionsAndTemplates(flowNodes, d)
    ELSE extractFunctionsAndTemplatesFresh(flowNodes, d)

NoTwin == [h \in Handlers |-> NoDir]

\* the entity has not been deployed yet; each handler has its own copy of the
\* extraction directory
InitTwin ==
    /\ variant = "gc"
    /\ nodes = <<>>
    /\ dirExists = FALSE
    /\ files = EmptyMap
    /\ manifest = NoManifest
    /\ last = Op("init")
    /\ prev = [nodes |-> <<>>, dirExists |-> FALSE, files |-> EmptyMap,
               manifest |-> NoManifest, op |-> "init", file |-> <<>>, text |-> <<>>]
    /\ steps = 0
    /\ tree = NoTwin
    /\ cfg = NoCfg
    /\ io = NoTwin
    /\ run = NoRun

\* a deploy with a new node list: each handler runs its pass on its own copy
\* of the directory; io keeps the two directories as they were before
DeployTwin ==
    /\ steps < MaxPasses
    /\ \E list \in FlowLists :
          /\ list # nodes
          /\ nodes' = list
          /\ tree' = [h \in Handlers |-> PassOf(h, list, tree[h])]
    /\ io' = tree
    /\ last' = Op("deploy")
    /\ steps' = steps + 1
    /\ UNCHANGED <<variant, dirExists, files, manifest, prev, cfg, run>>

NextTwin == DeployTwin

SpecTwin == InitTwin /\ [][NextTwin]_vars

---------------------------------------------------------------------------
(* src/index.js: loadFlows and the 'flows:started' events it causes *)

MaxChain == 4       \* invocations of the two handlers in one behaviour (SpecChain)

\* what the flow-set manager makes of the tree: no flow set, a monolithic
\* document without flows, a monolithic document with flows
TreeKinds == {"none", "empty", "some"}

\* the monolithic document on disk
DocKinds == {"absent", "empty", "some"}

\* flowEventData.config.flows of the event the runtime emits after it has
\* loaded document `doc`: "the flow file does not exist or is empty"
FlowsOf(doc) == IF doc = "some" THEN "some" ELSE "empty"

NoChain == [doc |-> "absent", cause |-> <<>>]

\* the runtime boots: a tree and a monolithic document are on disk or not, no
\* handler has run
InitChain ==
    /\ variant = "gc"
    /\ nodes = <<>>
    /\ dirExists = FALSE
    /\ files = EmptyMap
    /\ manifest = NoManifest
    /\ last = Op("init")
    /\ prev = [nodes |-> <<>>, dirExists |-> FALSE, files |-> EmptyMap,
               manifest |-> NoManifest, op |-> "init", file |-> <<>>, text |-> <<>>]
    /\ steps = 0
    /\ tree \in TreeKinds
    /\ cfg \in CfgChoices
    /\ \E doc \in DocKinds : io = [NoChain EXCEPT !.doc = doc]
    /\ run = NoRun

\* the calls onFlowReload makes for an event with flows `f`, up to its await or
\* return
onFlowReloadCalls(c, f, t) ==
    IF f = "some" THEN SplitCalls(c)
    ELSE RebuildCalls(c, IF t = "none" THEN "flowSetNull" ELSE "none")

\* the cause of an invocation: the invocation whose loadFlows emitted the event
\* (0: the runtime or the user), whether that load read the document late, and
\* the tree the invocation found
Cause(by, late, t) == [by |-> by, late |-> late, tree |-> t]

\* RED.events.on('flows:started', onFlowReload): the handler runs for an event
\* with flows `f` that invocation `by` caused; `doc` is the monolithic document
\* at the event
onFlowReload(by, late, f, doc) ==
    LET c == loadSplitterConfig(cfg)
        inv == run.n + 1
        rebuilt == f = "empty" /\ tree # "none"
    IN  /\ run.n < MaxChain
        /\ tree' = IF f = "some" THEN "some" ELSE tree
        /\ cfg' = IF f = "some" \/ rebuilt THEN c ELSE cfg
        /\ io' = [doc |-> IF rebuilt THEN tree ELSE doc,
                  cause |-> Append(io.cause, Cause(by, late, tree))]
        /\ run' = [run EXCEPT
                      !.n = inv,
                      !.timers = IF f = "some" THEN @ \cup {inv} ELSE @,
                      !.loading = (@ \ {p \in @ : p.inv = by})
                                     \cup (IF rebuilt
                                           THEN {[inv |-> inv, h |-> "onFlowReload",
                                                  doc |-> tree]}
                                           ELSE {}),
                      !.mono = (IF rebuilt THEN tree ELSE doc) # "absent",
                      !.flows = Append(@, f),
                      !.log = @ \o Calls(inv, "onFlowReload", onFlowReloadCalls(c, f, tree))]
        /\ UNCHANGED <<variant, entityVars, steps>>

\* the runtime has started the flows of the document on disk
Boot ==
    /\ run.n = 0
    /\ onFlowReload(0, FALSE, FlowsOf(io.doc), io.doc)

\* the user deploys flows: the runtime writes the monolithic document and
\* starts the flows
DeployFlows ==
    /\ run.n > 0
    /\ onFlowReload(0, FALSE, "some", "some")

\* a loadFlows call of the plugin completes: the runtime has loaded the
\* monolithic document and started its flows, 'flows:started' is emitted. The
\* runtime reads the document between the call and the event: it saw the
\* document of the call, or the one on disk now
FlowsLoaded ==
    \E p \in run.loading, late \in BOOLEAN :
        onFlowReload(p.inv, late, FlowsOf(IF late THEN io.doc ELSE p.doc), io.doc)

\* the timer of a split pass fires: fs.unlinkSync of the monolithic document
UnlinkMonolith ==
    /\ \E i \in run.timers :
          run' = [run EXCEPT
                     !.timers = @ \ {i},
                     !.mono = FALSE,
                     !.log = Append(@, Ev(i, "onFlowReload", "unlinkSync"))]
    /\ io' = [io EXCEPT !.doc = "absent"]
    /\ UNCHANGED <<variant, entityVars, steps, tree, cfg>>

\* POST /flow-splitter/reload: manualReload up to `await loadFlows(true)` or to
\* the response for a missing flow set
ReloadChain ==
    /\ run.n > 0 /\ run.n < MaxChain
    /\ LET c == loadSplitterConfig(cfg)
           inv == run.n + 1
           built == tree # "none"
       IN  /\ io' = [doc |-> IF built THEN tree ELSE io.doc,
                     cause |-> Append(io.cause, Cause(0, FALSE, tree))]
           /\ run' = [run EXCEPT
                         !.n = inv,
                         !.loading = IF built
                                     THEN @ \cup {[inv |-> inv, h |-> "manualReload",
                                                    doc |-> tree]}
                                     ELSE @,
                         !.mono = (IF built THEN tree ELSE io.doc) # "absent",
                         !.flows = Append(@, "request"),
                         !.log = @ \o Calls(inv, "manualReload",
                                    ReloadCalls(c, IF built THEN "none" ELSE "flowSetNull"))]
    /\ UNCHANGED <<variant, entityVars, steps, tree, cfg>>

NextChain ==
    \/ Boot \/ DeployFlows \/ FlowsLoaded \/ UnlinkMonolith \/ ReloadChain

SpecChain == InitChain /\ [][NextChain]_vars



---------------------------------------------------------------------------
(* Vocabulary of the properties *)

IsPass(op) == op \in {"deploy", "extract"}

Kinds == {"code", "initialize", "finalize", "info"}

\* the side file of a manifest entry for one of the four kinds, and its flag
SideFile(item, kind) ==
    CASE kind = "code" -> CodeName(item.fileName, item.isVue)
      [] kind = "initialize" -> InitializeName(item.fileName)
      [] kind = "finalize" -> FinalizeName(item.fileName)
      [] kind = "info" -> InfoName(item.fileName)

Flag(item, kind) ==
    CASE kind = "code" -> item.hasCode
      [] kind = "initialize" -> item.hasInitialize
      [] kind = "finalize" -> item.hasFinalize
      [] kind = "info" -> item.hasInfo

\* the node field a side file of that kind is read into
Field(node, item, kind) ==
    CASE kind = "code" -> IF item.isVue THEN node.format ELSE node.func
      [] kind = "initialize" -> node.initialize
      [] kind = "finalize" -> node.finalize
      [] kind = "info" -> node.info

Entries == manifest.entries

\* the paths the manifest flags, one per (entry, kind)
FlaggedPaths(entries) ==
    {<<i, kind>> \in (1..Len(entries)) \X Kinds : Flag(entries[i], kind)}

\* no two flagged (entry, kind) pairs name the same file
NoSharedPath(entries) ==
    \A p, q \in FlaggedPaths(entries) :
        p # q => SideFile(entries[p[1]], p[2]) # SideFile(entries[q[1]], q[2])

---------------------------------------------------------------------------
(* C1: round trip *)

\* C1: after an extraction pass over a list with at least one extractable node,
\* followed at once by restore, every node of the list is as it was before.
C1_RoundTrip ==
    (last.op = "restore" /\ IsPass(prev.op) /\ ExtractedIds(prev.nodes) # {})
        => nodes = prev.nodes

\* the same, for the passes in which no two flagged side files share a path
C1_RoundTripNoClash ==
    (last.op = "restore" /\ IsPass(prev.op) /\ ExtractedIds(prev.nodes) # {}
        /\ NoSharedPath(prev.manifest.entries))
        => nodes = prev.nodes


\* a restore ran right after a pass that shared a path between two nodes and
\* changed a node
C1_ClashReached ==
    /\ last.op = "restore" /\ IsPass(prev.op)
    /\ ~NoSharedPath(prev.manifest.entries)
    /\ nodes # prev.nodes

---------------------------------------------------------------------------
(* C2: edit propagation *)

PrevDir == [dirExists |-> prev.dirExists, files |-> prev.files, manifest |-> prev.manifest]

\* the (entry, kind) pairs of the manifest whose flag is set, whose node is in
\* the list and whose side file is `file`
FlaggedFor(file) ==
    {p \in FlaggedPaths(Entries) :
        /\ SideFile(Entries[p[1]], p[2]) = file
        /\ FindNode(nodes, Entries[p[1]].nodeId) # 0}

NodeOf(flowNodes, item) == flowNodes[FindNode(flowNodes, item.nodeId)]

\* C2: when a side file the manifest flags for a node is replaced by a new text and
\* restore is called next, the field of that node equals the new text.
C2_EditPropagates ==
    (last.op = "restore" /\ prev.op = "edit" /\ manifest.state = "ok")
        => \A p \in FlaggedFor(prev.file) :
              Field(NodeOf(nodes, Entries[p[1]]), Entries[p[1]], p[2]) = Str(prev.text)

\* an edited file was read back into a field that held something else
C2_EditRestored ==
    /\ last.op = "restore" /\ prev.op = "edit" /\ manifest.state = "ok"
    /\ \E p \in FlaggedFor(prev.file) :
          /\ Field(NodeOf(nodes, Entries[p[1]]), Entries[p[1]], p[2]) = Str(prev.text)
          /\ Field(NodeOf(prev.nodes, Entries[p[1]]), Entries[p[1]], p[2]) # Str(prev.text)

---------------------------------------------------------------------------
(* C3: idempotence of the pass *)

\* C3: a pass over the node list of the pass before it, whatever the directory held
\* before the first of the two, leaves the manifest and every file as they were.
C3_SecondPassChangesNothing ==
    (last.op = "extract" /\ IsPass(prev.op)) => Dir = PrevDir

\* the second of two passes ran on a directory an earlier deploy had filled, and the
\* list has a node with an ordinal suffix
C3_SecondPassReached ==
    /\ last.op = "extract" /\ prev.op = "deploy" /\ steps >= 2
    /\ manifest.state = "ok"
    /\ \E i \in 1..Len(Entries) : Entries[i].fileName # Entries[i].sanitizedName
    /\ DOMAIN files # {}

---------------------------------------------------------------------------
(* C4: orphan garbage collection *)

IdsOf(flowNodes) == {flowNodes[i].id : i \in 1..Len(flowNodes)}

EntriesOf(entries, ids) == {i \in 1..Len(entries) : entries[i].nodeId \in ids}

PathsOf(entries, ids) ==
    {SideFile(entries[p[1]], p[2]) : p \in {q \in FlaggedPaths(entries) : q[1] \in EntriesOf(entries, ids)}}

\* a pass over two extractable nodes A and B was followed by a pass over A alone
TwoThenOne ==
    /\ IsPass(last.op) /\ IsPass(prev.op)
    /\ Len(prev.nodes) = 2 /\ ExtractedIds(prev.nodes) = IdsOf(prev.nodes)
    /\ Len(nodes) = 1 /\ \E i \in 1..2 : prev.nodes[i] = nodes[1]

\* C4: after extracting {A, B} and then {A}, no side file of B is left (other than
\* a path that is now a side file of A), the manifest has no entry for B, and
\* every side file of A is there with the content A's file of that kind had.
C4_OrphanGC ==
    TwoThenOne =>
        LET gone == IdsOf(prev.nodes) \ IdsOf(nodes)
            kept == IdsOf(nodes)
        IN  /\ manifest.state = "ok"
            /\ EntriesOf(Entries, gone) = {}
            /\ \A f \in PathsOf(prev.manifest.entries, gone) :
                  f \in DOMAIN files => f \in PathsOf(Entries, kept)
            /\ \A i \in EntriesOf(Entries, kept), j \in EntriesOf(prev.manifest.entries, kept),
                 kind \in Kinds :
                  Flag(prev.manifest.entries[j], kind) =>
                      /\ Flag(Entries[i], kind)
                      /\ SideFile(Entries[i], kind) \in DOMAIN files
                      /\ files[SideFile(Entries[i], kind)]
                            = prev.files[SideFile(prev.manifest.entries[j], kind)]

---------------------------------------------------------------------------
(* C5, C6: file names of one pass *)

\* the pass that produced this state wrote the manifest
ManifestOfThisPass ==
    IsPass(last.op) /\ ExtractedIds(nodes) # {} /\ manifest.state = "ok"

\* C5: the fileName values the manifest of one pass records are pairwise distinct.
C5_FileNamesDistinct ==
    ManifestOfThisPass =>
        \A i, j \in 1..Len(Entries) : i # j => Entries[i].fileName # Entries[j].fileName

\* the basename the suffix rule of the claim gives the i-th extracted node: k counts
\* the extracted nodes before it with the same sanitized name
RuleBasename(entries, i) ==
    LET k == Cardinality({j \in 1..(i - 1) : entries[j].sanitizedName = entries[i].sanitizedName})
    IN  IF k = 0 THEN entries[i].sanitizedName
        ELSE entries[i].sanitizedName \o <<"(">> \o Dec(k + 1) \o <<")">>

\* C6: the basename of an extracted node is its sanitized name when no earlier
\* extracted node produced it, and the name followed by (k+1) when k did; skipped
\* nodes do not count.
C6_SuffixRule ==
    ManifestOfThisPass =>
        \A i \in 1..Len(Entries) : Entries[i].fileName = RuleBasename(Entries, i)

---------------------------------------------------------------------------
(* C7: which nodes are extracted *)

LooksLikeMarkup(node) ==
    node.format.def
        /\ (Contains(node.format.v, TemplateTag) \/ Contains(node.format.v, ScriptTag))

HasScriptField(node) ==
    \E x \in {node.func, node.initialize, node.finalize} : x.def /\ Trim(x.v) # <<>>

\* markup-bearing and script-bearing as the claim defines them
MarkupBearing(node) == node.type = "ui-template" /\ LooksLikeMarkup(node)
ScriptBearing(node) ==
    node.type = "function" /\ ~LooksLikeMarkup(node) /\ HasScriptField(node)

HasEntry(id) == manifest.state = "ok" /\ \E i \in 1..Len(Entries) : Entries[i].nodeId = id

\* the first pass over the list, on a directory that did not exist
FirstPass == last.op = "extract" /\ prev.op = "init"

\* the files in the directory are the flagged side files of the entries, and
\* every entry has one
FilesAreOfEntries ==
    /\ DOMAIN files = PathsOf(Entries, IdsOf(nodes))
    /\ \A i \in 1..Len(Entries) : \E kind \in Kinds : Flag(Entries[i], kind)

---------------------------------------------------------------------------
(* C8: manifest flags and the files on disk *)

\* C8: after a pass that wrote the manifest, following any earlier passes, a flag
\* of a manifest entry is set if and only if the side file it stands for exists.
\* (The cleanup that follows the manifest write never removes a file named
\* <fileName>.<ext> of an entry, so the state after the pass decides it.)
C8_FlagsMatchDisk ==
    ManifestOfThisPass =>
        \A i \in 1..Len(Entries), kind \in Kinds :
            Flag(Entries[i], kind) <=> SideFile(Entries[i], kind) \in DOMAIN files

\* the half of C8 that restore relies on: a flagged side file exists
C8_FlaggedFilesExist ==
    ManifestOfThisPass =>
        \A i \in 1..Len(Entries), kind \in Kinds :
            Flag(Entries[i], kind) => SideFile(Entries[i], kind) \in DOMAIN files

---------------------------------------------------------------------------
(* C9: manifest lifecycle *)

ManifestIds == {Entries[i].nodeId : i \in 1..Len(Entries)}

\* C9: after a pass over a non-empty list the manifest on disk holds exactly the
\* nodes that pass extracted; when it extracted none, no manifest and no
\* extraction directory remain.
C9_ManifestLifecycle ==
    (IsPass(last.op) /\ Len(nodes) > 0) =>
        IF ExtractedIds(nodes) # {}
        THEN manifest.state = "ok" /\ ManifestIds = ExtractedIds(nodes)
        ELSE manifest.state = "absent" /\ ~dirExists

\* C9 for the handler that deletes the directory before it writes (part_001)
C9_ManifestLifecycleFresh == variant = "fresh" => C9_ManifestLifecycle

\* the full rewrite alone: a pass that extracted a node leaves exactly its entries
C9_FullRewrite ==
    (IsPass(last.op) /\ ExtractedIds(nodes) # {}) =>
        manifest.state = "ok" /\ ManifestIds = ExtractedIds(nodes)

---------------------------------------------------------------------------
(* C10: missing side files *)

PrevEntries == prev.manifest.entries

\* the entries of the manifest restore read whose node is in the list
Restorable == {i \in 1..Len(PrevEntries) : FindNode(prev.nodes, PrevEntries[i].nodeId) # 0}

\* C10: when restore finds a flag set and the file absent it leaves the field as
\* it was; the other flagged fields of the node, and of the entries after it,
\* are still read from their files.
C10_MissingFileTolerated ==
    (last.op = "restore" /\ prev.manifest.state = "ok") =>
        /\ Len(nodes) = Len(prev.nodes)
        /\ \A i \in Restorable, kind \in Kinds :
              LET item == PrevEntries[i]
                  k == FindNode(prev.nodes, item.nodeId)
              IN  Flag(item, kind) =>
                      IF SideFile(item, kind) \in DOMAIN files
                      THEN Field(nodes[k], item, kind) = Str(files[SideFile(item, kind)])
                      ELSE /\ Field(nodes[k], item, kind) = Field(prev.nodes[k], item, kind)
                           /\ kind = "code" => /\ nodes[k].func = prev.nodes[k].func
                                               /\ nodes[k].format = prev.nodes[k].format

\* restore met a flagged file that was deleted, kept that field, and read an
\* edited file of the same node into another field
C10_MissingFileMet ==
    /\ last.op = "restore" /\ prev.manifest.state = "ok"
    /\ \E i \in Restorable, missing, edited \in Kinds :
          LET item == PrevEntries[i]
              k == FindNode(prev.nodes, item.nodeId)
          IN  /\ Flag(item, missing) /\ SideFile(item, missing) \notin DOMAIN files
              /\ Field(nodes[k], item, missing).def
              /\ Flag(item, edited) /\ SideFile(item, edited) \in DOMAIN files
              /\ Field(nodes[k], item, edited) # Field(prev.nodes[k], item, edited)

---------------------------------------------------------------------------
(* C11: a script node with func alone *)

Filled(x) == x.def /\ Trim(x.v) # <<>>

\* a script node whose only non-empty extractable field is func
FuncOnly(node) ==
    /\ node.type \in {"function", "ui-template"}
    /\ ~LooksLikeMarkup(node)
    /\ Filled(node.func)
    /\ ~Filled(node.initialize) /\ ~Filled(node.finalize) /\ ~Filled(node.info)

\* the pass started on an empty or absent extraction directory
FreshDir == variant = "fresh" \/ prev.files = EmptyMap

\* the flagged paths of the entries other than entry i
PathsOfOthers(entries, i) ==
    {SideFile(entries[p[1]], p[2]) : p \in {q \in FlaggedPaths(entries) : q[1] # i}}

\* C11: for a script node that has func alone, a pass records and writes the .js
\* file and no .initialize.js, .finalize.js or .info.md; restore leaves the
\* initialize and finalize fields of such a node as they were and changes no file.
C11_PartialFields ==
    /\ ManifestOfThisPass =>
          \A n \in 1..Len(nodes) : FuncOnly(nodes[n]) =>
              \E i \in 1..Len(Entries) :
                  /\ Entries[i].nodeId = nodes[n].id
                  /\ Entries[i].hasCode /\ ~Entries[i].isVue
                  /\ ~Entries[i].hasInitialize /\ ~Entries[i].hasFinalize
                  /\ ~Entries[i].hasInfo
                  /\ CodeName(Entries[i].fileName, FALSE) \in DOMAIN files
                  /\ NoSharedPath(Entries) =>
                        files[CodeName(Entries[i].fileName, FALSE)] = nodes[n].func.v
                  /\ FreshDir =>
                        \A kind \in {"initialize", "finalize", "info"} :
                            SideFile(Entries[i], kind) \in DOMAIN files =>
                                SideFile(Entries[i], kind) \in PathsOfOthers(Entries, i)
    /\ last.op = "restore" =>
          /\ Dir = PrevDir
          /\ Len(nodes) = Len(prev.nodes)
          /\ \A n \in 1..Len(prev.nodes) : FuncOnly(prev.nodes[n]) =>
                /\ nodes[n].initialize = prev.nodes[n].initialize
                /\ nodes[n].finalize = prev.nodes[n].finalize

\* restore ran on a node with func alone while a file with the name of its
\* initialize side file was in the directory, and did not read it
C11_StaleFileNotRead ==
    /\ last.op = "restore" /\ manifest.state = "ok"
    /\ \E n \in 1..Len(prev.nodes), i \in 1..Len(Entries) :
          /\ FuncOnly(prev.nodes[n])
          /\ Entries[i].nodeId = prev.nodes[n].id
          /\ InitializeName(Entries[i].fileName) \in DOMAIN files
          /\ ~nodes[n].initialize.def

---------------------------------------------------------------------------
(* C12: renamed nodes *)

\* C12: when a node was renamed after the pass and restore is called, each flagged
\* side file named by the fileName of the manifest entry of its id is read into
\* the node of that id, whatever the node is called now.
C12_RenamedResolves ==
    (last.op = "restore" /\ prev.op = "rename" /\ prev.manifest.state = "ok") =>
        \A i \in Restorable, kind \in Kinds :
            LET item == PrevEntries[i]
                k == FindNode(prev.nodes, item.nodeId)
            IN  /\ nodes[k].id = item.nodeId
                /\ (Flag(item, kind) /\ SideFile(item, kind) \in DOMAIN files) =>
                      Field(nodes[k], item, kind) = Str(files[SideFile(item, kind)])

\* the file a name-derived lookup would read for the main body of a node
CodeFileByName(node, item) == CodeName(Sanitize(NodeName(node)), item.isVue)

\* restore assigned the edited file of the manifest entry to a renamed node while
\* a file with the node's current name and another content was in the directory
C12_RenamedRestored ==
    /\ last.op = "restore" /\ prev.op = "rename" /\ prev.manifest.state = "ok"
    /\ \E i \in Restorable :
          LET item == PrevEntries[i]
              k == FindNode(prev.nodes, item.nodeId)
          IN  /\ Sanitize(NodeName(nodes[k])) # item.fileName
              /\ item.hasCode /\ SideFile(item, "code") \in DOMAIN files
              /\ Field(nodes[k], item, "code") # Field(prev.nodes[k], item, "code")
              /\ CodeFileByName(nodes[k], item) \in DOMAIN files
              /\ files[CodeFileByName(nodes[k], item)] # files[SideFile(item, "code")]

---------------------------------------------------------------------------
(* C13: restore does not write to the directory *)

\* C13: restore leaves the manifest, every side file and the extraction directory
\* as they were, whether the manifest is there, missing or unparseable.
C13_RestoreReadOnly ==
    last.op = "restore" => Dir = PrevDir

\* restore ran on a directory whose manifest could not be parsed
C13_RestoreOnBadManifest ==
    /\ last.op = "restore" /\ prev.manifest.state = "corrupt"
    /\ DOMAIN prev.files # {}

---------------------------------------------------------------------------
(* C14: what restore may change in the node list *)

\* the fields restore never assigns
Frame(node) == [id |-> node.id, type |-> node.type, name |-> node.name]

PrevManifestIds ==
    IF prev.manifest.state = "ok"
    THEN {PrevEntries[i].nodeId : i \in 1..Len(PrevEntries)}
    ELSE {}

\* C14: restore returns the same nodes in the same order; an entry whose id is
\* not in the list adds no node and the entries after it are still restored;
\* a node without an entry is unchanged; id, type and name never change.
C14_RestoreFrame ==
    last.op = "restore" =>
        /\ Len(nodes) = Len(prev.nodes)
        /\ \A n \in 1..Len(prev.nodes) :
              /\ Frame(nodes[n]) = Frame(prev.nodes[n])
              /\ prev.nodes[n].id \notin PrevManifestIds => nodes[n] = prev.nodes[n]
        /\ prev.manifest.state = "ok" =>
              \A i \in Restorable, kind \in Kinds :
                  LET item == PrevEntries[i]
                      k == FindNode(prev.nodes, item.nodeId)
                  IN  (Flag(item, kind) /\ SideFile(item, kind) \in DOMAIN files) =>
                          Field(nodes[k], item, kind) = Str(files[SideFile(item, kind)])

\* restore skipped an entry whose node had been deleted and changed the node of
\* an entry after it
C14_SkippedThenRestored ==
    /\ last.op = "restore" /\ prev.manifest.state = "ok"
    /\ Len(nodes) = Len(prev.nodes)
    /\ \E i, j \in 1..Len(PrevEntries) :
          /\ i < j
          /\ FindNode(prev.nodes, PrevEntries[i].nodeId) = 0
          /\ PrevEntries[i].nodeId \notin IdsOf(nodes)
          /\ FindNode(prev.nodes, PrevEntries[j].nodeId) # 0
          /\ NodeOf(nodes, PrevEntries[j]) # NodeOf(prev.nodes, PrevEntries[j])

---------------------------------------------------------------------------
(* Vocabulary of the properties of the plugin as a whole *)

There(t) == {e \in EntityNames : t[e].there}

Range(seq) == {seq[i] : i \in 1..Len(seq)}

\* the restore batch of the last invocation was reached
BatchReached == io.op \in RebuildOps /\ io.fail \notin {"config", "restoreDir"}

RestoreEnabled(file) == loadSplitterConfig(file).restoreFunctionsTemplates # "false"

\* every flagged side file of the manifest of `before` that exists is now the
\* content of its field in the node of that id
ReadBack(before, after) ==
    /\ Len(after.nodes) = Len(before.nodes)
    /\ \A i \in 1..Len(before.manifest.entries), kind \in Kinds :
          LET item == before.manifest.entries[i]
              k == FindNode(before.nodes, item.nodeId)
          IN  (k # 0 /\ Flag(item, kind) /\ SideFile(item, kind) \in DOMAIN before.files) =>
                  Field(after.nodes[k], item, kind)
                      = Str(before.files[SideFile(item, kind)])

---------------------------------------------------------------------------
(* C15: a manifest that cannot be parsed *)

\* C15: in a restore batch an entity whose manifest is unparseable or missing
\* keeps its node list as it was, and the batch still reaches every other flow
\* file: with the handler that exports the restore operation each of them is
\* read back from its side files.
C15_BadManifestSkipped ==
    BatchReached =>
        /\ io.restored \in {{}, There(io.tree)}
        /\ \A e \in EntityNames :
              /\ io.tree[e].manifest.state \in {"corrupt", "absent"} =>
                    tree[e].nodes = io.tree[e].nodes
              /\ (io.tree[e].there /\ io.tree[e].manifest.state = "ok"
                    /\ RestoreEnabled(io.cfg) /\ variant = "fresh") =>
                    /\ e \in io.restored
                    /\ ReadBack(io.tree[e], tree[e])

\* the batch met the unparseable manifest of the tab, left the tab as it was and
\* changed a node of the subflow from an edited file
C15_BatchWentOn ==
    /\ BatchReached
    /\ io.tree["a"].there /\ io.tree["a"].manifest.state = "corrupt"
    /\ tree["a"].nodes = io.tree["a"].nodes
    /\ tree["b"].nodes # io.tree["b"].nodes

---------------------------------------------------------------------------
(* C16, C17: a side-file write that fails *)

\* the writes a pass over the entity's list makes when none fails
AllWrites(e) == ExtractOrThrow(variant, tree[e].nodes, DirOf(io.tree[e]), {}).attempts

WriteFailed(e) == \E f \in Range(io.pass[e].attempts) : f \in io.bad[e]

\* C16: when a side-file write fails in a pass, every write of the later nodes is
\* still attempted, and the pass writes the manifest and reconciles orphans.
C16_WriteIsolation ==
    io.op = "split" =>
        \A e \in io.extracted : WriteFailed(e) =>
            /\ Range(AllWrites(e)) \subseteq Range(io.pass[e].attempts)
            /\ io.pass[e].manifestWritten
            /\ variant = "gc" => io.pass[e].cleanupRan

EntryIds(ent) == {ent.manifest.entries[i].nodeId : i \in 1..Len(ent.manifest.entries)}

\* C17: the manifest is written only after every side-file write of the pass was
\* attempted, and after a pass that attempted a write, failed or not, the
\* manifest on disk is the manifest of that pass.
C17_ManifestOfPass ==
    io.op = "split" =>
        \A e \in io.extracted :
            /\ io.pass[e].manifestWritten =>
                  Range(AllWrites(e)) \subseteq Range(io.pass[e].attempts)
            /\ io.pass[e].attempts # <<>> =>
                  /\ tree[e].manifest.state = "ok"
                  /\ EntryIds(tree[e]) = ExtractedIds(tree[e].nodes)

---------------------------------------------------------------------------
(* C18: the configuration flags *)

\* C18: extraction on a split pass and restoration on a rebuild pass or manual
\* reload both run when extractFunctionsTemplates is true or absent, and neither
\* runs when it is false.
C18_SingleFlag ==
    LET on == io.cfg.extractFunctionsTemplates # "false"
    IN  /\ io.op = "split" => io.extracted = (IF on THEN There(tree) ELSE {})
        /\ BatchReached => io.restored = (IF on THEN There(io.tree) ELSE {})

---------------------------------------------------------------------------
(* C19: the response of the manual reload *)

---------------------------------------------------------------------------
(* C20: no flow set *)

\* C20: when the flow set cannot be built, a manual reload answers failure, a
\* rebuild pass stops, loadFlows is not called, and flow files, extraction
\* directories, manifests, monolithic document and configuration are as before.
C20_FailureTouchesNothing ==
    (io.op \in RebuildOps /\ io.fail \in {"flowSetNull", "flowSetThrows"}) =>
        /\ tree = io.tree
        /\ cfg = io.cfg
        /\ io.monolith = "kept" /\ ~io.config
        /\ io.loadFlows = 0
        /\ io.op = "reload" => io.responses = <<R500>>

---------------------------------------------------------------------------
(* C21: run to completion *)

Log == run.log

\* a call that acts on the file system or calls loadFlows
ActsOnDisk(ev) == ev.act \notin {"loadFlows resolved", "res.json", "res.status(500)"}

\* position p is the deletion of a monolithic document that manualReload wrote
\* and whose loadFlows had not resolved yet
DeletedBeforeLoaded(p) ==
    /\ Log[p].act = "unlinkSync"
    /\ \E q \in 1..(p - 1) :
          /\ Log[q] = Ev(Log[q].inv, "manualReload", "constructMonolithFileFromFlowSet")
          /\ \A k \in (q + 1)..(p - 1) :
                /\ Log[k].act \notin {"unlinkSync", "constructMonolithFileFromFlowSet",
                                      "constructTreeFilesFromFlowSet"}
                /\ Log[k] # Ev(Log[q].inv, "manualReload", "loadFlows resolved")

\* C21: no call of an invocation of one handler lies between the first and the
\* last call of an invocation of the other handler, and a split pass never
\* deletes the monolithic document of a manual reload before the loadFlows of
\* that reload has resolved.
C21_RunToCompletion ==
    /\ \A i, j, k \in 1..Len(Log) :
          (i < j /\ j < k /\ Log[i].inv = Log[k].inv /\ ActsOnDisk(Log[i])
              /\ ActsOnDisk(Log[k]) /\ ActsOnDisk(Log[j]))
              => Log[j].h = Log[i].h
    /\ \A p \in 1..Len(Log) : ~DeletedBeforeLoaded(p)

---------------------------------------------------------------------------
(* C22: the scenario of the function node "Process Data" *)

\* C22: extracting the function node n1 named "Process Data" with func
\* "return msg;" writes Process_Data.js with that content and records fileName
\* "Process_Data" with hasCode for n1.
C22_ScenarioNaming ==
    (FirstPass /\ nodes \in ScenarioLists) =>
        /\ HasEntry("n1")
        /\ Entries[1].fileName = Process_Data
        /\ Entries[1].hasCode
        /\ (Process_Data \o ExtJs) \in DOMAIN files
        /\ files[Process_Data \o ExtJs] = ReturnMsg

---------------------------------------------------------------------------
(* C23: the name sanitizer *)

\* the name with / \ : * ? " < > | replaced by - and every other character kept
Replaced(name) ==
    [k \in 1..Len(name) |->
        IF name[k] \in {"/", "\\", ":", "*", "?", "\"", "<", ">", "|"} THEN "-"
        ELSE name[k]]

Unnamed(node) == ~node.name.def \/ node.name.v = <<>>

\* the sanitized name of every named node that was extracted is its name with
\* the nine characters replaced
NamedAreReplaced ==
    \A i \in 1..Len(Entries) :
        ~Unnamed(NodeOf(nodes, Entries[i])) =>
            Entries[i].sanitizedName = Replaced(NodeOf(nodes, Entries[i]).name.v)

---------------------------------------------------------------------------
(* C24: restore of a markup node *)

\* C24: for a manifest entry with hasCode whose main-body file exists, restore
\* leaves both format and func of a markup node equal to the file content,
\* whatever they held before; for a script entry it assigns func alone.
C24_MarkupBothFields ==
    (last.op = "restore" /\ prev.manifest.state = "ok") =>
        \A i \in Restorable :
            LET item == PrevEntries[i]
                k == FindNode(prev.nodes, item.nodeId)
                codeFile == SideFile(item, "code")
            IN  (item.hasCode /\ codeFile \in DOMAIN files) =>
                    IF item.isVue
                    THEN /\ nodes[k].format = Str(files[codeFile])
                         /\ nodes[k].func = Str(files[codeFile])
                    ELSE /\ nodes[k].func = Str(files[codeFile])
                         /\ nodes[k].format = prev.nodes[k].format

---------------------------------------------------------------------------
(* C25: no stale side file after a pass *)

\* the side files the manifest describes: <fileName>.<ext> of an entry whose
\* flag for that kind is set
Described ==
    IF manifest.state = "ok"
    THEN {SideFile(Entries[p[1]], p[2]) : p \in FlaggedPaths(Entries)}
    ELSE {}

\* C25: after a pass that follows any passes and changes of the node list, every
\* .vue, .js or .md file of the extraction directory is a side file the manifest
\* on disk describes.
C25_NoStaleFiles ==
    IsPass(last.op) => getAllFiles(files) \subseteq Described

\* the same for the handler that deletes the directory before it writes
C25_NoStaleFilesFresh ==
    (IsPass(last.op) /\ variant = "fresh") => getAllFiles(files) \subseteq Described

---------------------------------------------------------------------------
(* C26: extraction directories without an entity file *)

ExtractionEnabled(file) == loadSplitterConfig(file).extractFunctionsTemplates # "false"

\* the positions of a call in the order of the batch
PositionsOf(call) == {i \in 1..Len(io.order) : io.order[i].call = call}

\* the extraction directory the pass of the handler left for entity e
LeftByPass(e) ==
    IF FlowFile \in io.bad[e] THEN DirOf(io.tree[e])
    ELSE ExtractOrThrow(variant, tree[e].nodes, DirOf(io.tree[e]), io.bad[e]).dir

\* C26: when the extraction batch of a split pass has run, every extraction
\* directory has its entity file, the directory of an entity whose file exists
\* is as its pass left it, and both roots were cleaned up after the entities of
\* both roots were processed.
C26_OrphanDirectories ==
    (io.op = "split" /\ ExtractionEnabled(io.cfg)) =>
        /\ \A e \in EntityNames : tree[e].dirExists => tree[e].there
        /\ \A e \in EntityNames : tree[e].there => DirOf(tree[e]) = LeftByPass(e)
        /\ \A r \in EntityNames :
              /\ \E i \in PositionsOf("processFlowDirectory") : io.order[i].root = r
              /\ \E i \in PositionsOf("cleanupOrphanedDirectories") : io.order[i].root = r
        /\ \A i \in PositionsOf("processFlowDirectory"),
             j \in PositionsOf("cleanupOrphanedDirectories") : i < j

\* a split pass removed the extraction directory of the subflow whose file was
\* gone and kept the directory of the tab
C26_OrphanRemoved ==
    /\ io.op = "split" /\ ExtractionEnabled(io.cfg)
    /\ io.tree["b"].dirExists /\ DOMAIN io.tree["b"].files # {}
    /\ ~tree["b"].there /\ ~tree["b"].dirExists
    /\ tree["a"].there /\ tree["a"].dirExists /\ DOMAIN tree["a"].files # {}

---------------------------------------------------------------------------
(* C27: the flow file of a renamed entity *)

\* the tab node of the deploy with this id, when there is one
IsCurrent(id) == \E i \in 1..Len(io.flows) : io.flows[i].id = id

CurrentTab(id) == io.flows[CHOOSE i \in 1..Len(io.flows) : io.flows[i].id = id]

\* C27: before the split, a flow file and the directory of its name are deleted
\* if and only if the file holds a tab of the deploy and its base name is not
\* the name the flow-set manager writes for that tab; every other file and
\* directory is as it was.
C27_RenamedCleanup ==
    io.op = "deploy" =>
        \A f \in TabFiles :
            io.tree[f].there =>
                IF /\ IsCurrent(io.tree[f].id)
                   /\ f # ManagerFileName(CurrentTab(io.tree[f].id))
                THEN io.cleaned[f] = NoFile
                ELSE io.cleaned[f] = io.tree[f]

\* the same, with the name cleanupRenamedFlows expects in place of the name the
\* manager writes
C27_RenamedCleanupExpected ==
    io.op = "deploy" =>
        \A f \in TabFiles :
            io.tree[f].there =>
                IF /\ IsCurrent(io.tree[f].id)
                   /\ f # ExpectedFilename(CurrentTab(io.tree[f].id))
                THEN io.cleaned[f] = NoFile
                ELSE io.cleaned[f] = io.tree[f]

---------------------------------------------------------------------------
(* C28: a failure on one entity *)

\* C28: when the processing of one entity fails in the extraction batch (its
\* flow file cannot be parsed, its extraction directory cannot be created, a
\* write of its extraction throws), every other flow file of the two roots is
\* still processed and the orphan directories of both roots are still removed.
C28_FaultIsolation ==
    (io.op = "split" /\ ExtractionEnabled(io.cfg)) =>
        \A e \in There(tree) :
            io.pass[e].thrown =>
                /\ \A o \in There(tree) \ {e} :
                      /\ o \in io.extracted
                      /\ ~io.pass[o].thrown
                      /\ DirOf(tree[o]) =
                            ExtractOrThrow(variant, tree[o].nodes, DirOf(io.tree[o]), {}).dir
                /\ \A r \in EntityNames :
                      \E i \in PositionsOf("cleanupOrphanedDirectories") :
                          io.order[i].root = r
                /\ \A o \in EntityNames : tree[o].dirExists => tree[o].there

\* the extraction directory of the tab could not be created, and the same
\* batch wrote the side files and the manifest of the subflow
C28_OthersProcessed ==
    /\ io.op = "split" /\ ExtractionEnabled(io.cfg)
    /\ ExtractedDir \in io.bad["a"]
    /\ tree["a"].there /\ io.pass["a"].thrown /\ ~tree["a"].dirExists
    /\ tree["b"].there /\ ~io.tree["b"].dirExists
    /\ tree["b"].dirExists /\ DOMAIN tree["b"].files # {}
    /\ io.pass["b"].manifestWritten

---------------------------------------------------------------------------
(* C29: the order of the steps of onFlowReload *)

\* the calls of invocation `inv` that act on the file system or call loadFlows,
\* in the order in which they were made
StepsOf(inv) ==
    LET sub == SelectSeq(Log, LAMBDA ev : ev.inv = inv /\ ActsOnDisk(ev))
    IN  [i \in 1..Len(sub) |-> sub[i].act]

\* the steps of a deploy, and of a start without flows, as the claim orders them
SplitOrder ==
    <<"cleanupRenamedFlows", "constructTreeFilesFromFlowSet", "writeSplitterConfig",
      "extractFunctionsAndTemplates", "unlinkSync">>
RebuildOrder ==
    <<"restoreFunctionsAndTemplates", "constructFlowSetFromTreeFiles",
      "constructMonolithFileFromFlowSet", "writeSplitterConfig", "loadFlows">>

PlaceIn(order, act) == CHOOSE p \in 1..Len(order) : order[p] = act

\* every step of `made` is one of `order`, and the steps come in that order,
\* none of them twice
InOrder(made, order) ==
    /\ \A i \in 1..Len(made) : \E p \in 1..Len(order) : order[p] = made[i]
    /\ \A i, j \in 1..Len(made) :
          i < j => PlaceIn(order, made[i]) < PlaceIn(order, made[j])

Made(inv, act) == \E i \in 1..Len(StepsOf(inv)) : StepsOf(inv)[i] = act

\* C29: an invocation of onFlowReload for a document with flows makes its
\* calls in the order renamed-entity cleanup, tree write, config write,
\* extraction, deletion of the monolithic document; the first three are always
\* made, the deletion only once the delay has elapsed, and loadFlows is not
\* called.  An invocation for an empty document makes its calls in the order
\* restoration, tree read, monolith build, config write, loadFlows; the tree is
\* always read, and it neither deletes the monolithic document nor extracts
\* nor cleans up.
C29_PassOrder ==
    \A inv \in 1..run.n :
        /\ run.flows[inv] = "some" =>
              /\ InOrder(StepsOf(inv), SplitOrder)
              /\ \A p \in 1..3 : Made(inv, SplitOrder[p])
              /\ Made(inv, "unlinkSync") <=> inv \notin run.timers
        /\ run.flows[inv] = "empty" =>
              /\ InOrder(StepsOf(inv), RebuildOrder)
              /\ Made(inv, "constructFlowSetFromTreeFiles")
              /\ Made(inv, "loadFlows") =>
                    \A p \in 2..4 : Made(inv, RebuildOrder[p])

\* a deploy made all of its five calls, and a start without flows all of its
\* five
C29_BothBranchesComplete ==
    \E i, j \in 1..run.n :
        /\ run.flows[i] = "some" /\ StepsOf(i) = SplitOrder
        /\ run.flows[j] = "empty" /\ StepsOf(j) = RebuildOrder

---------------------------------------------------------------------------
(* C30: no two writes to one path *)

\* the side-file paths the pass over the present node list wrote, one per
\* (node, kind) pair, in the order of the writes
WritesOfPass == ExtractOrThrow(variant, nodes, NoDir, {}).attempts

\* C30: within one extraction pass no path is written for two different
\* (node, side-file kind) pairs.
C30_NoTwoWrites ==
    IsPass(last.op) =>
        \A i, j \in 1..Len(WritesOfPass) :
            i < j => WritesOfPass[i] # WritesOfPass[j]

---------------------------------------------------------------------------
(* C31: the two handler files leave the same directory *)

\* C31: after each pass of a sequence of passes over changing node lists, the
\* handler that deletes the directory first and the handler that cleans up
\* by file name have left the same manifest and the same side files with the
\* same contents.
C31_VariantsAgree ==
    last.op = "deploy" =>
        /\ tree["gc"].manifest = tree["fresh"].manifest
        /\ tree["gc"].files = tree["fresh"].files

\* the same, for the manifest alone when the pass extracted a node, and for
\* the side files the manifest of the pass flags
C31_FlaggedFilesAgree ==
    last.op = "deploy" =>
        /\ ExtractedIds(nodes) # {} => tree["gc"].manifest = tree["fresh"].manifest
        /\ \A f \in DOMAIN tree["fresh"].files :
              f \in DOMAIN tree["gc"].files /\ tree["gc"].files[f] = tree["fresh"].files[f]

---------------------------------------------------------------------------
(* C32: the plugin does not re-trigger itself *)

\* the number of loadFlows calls invocation `inv` has made
LoadsOf(inv) ==
    Cardinality({i \in 1..Len(Log) : Log[i] = Ev(inv, Log[i].h, "loadFlows")})

\* invocation `inv` is a rebuild pass: onFlowReload for an empty document
IsRebuild(inv) == run.flows[inv] = "empty"

\* the invocation whose loadFlows emitted the event of `inv` is a rebuild pass
ByRebuild(inv) == io.cause[inv].by # 0 /\ IsRebuild(io.cause[inv].by)

\* C32: a rebuild pass calls loadFlows exactly once when the manager has built
\* a monolithic document (never twice), the flows-started event that this load
\* emits takes the split path, and a split pass calls no loadFlows: the chain
\* of events the plugin causes ends after one load, whatever the tree holds.
C32_ChainEnds ==
    \A inv \in 1..run.n :
        /\ IsRebuild(inv) =>
              LoadsOf(inv) = (IF io.cause[inv].tree = "none" THEN 0 ELSE 1)
        /\ run.flows[inv] = "some" => LoadsOf(inv) = 0
        /\ ByRebuild(inv) => run.flows[inv] = "some"

\* the same, when the manager built a document with flows from the tree of
\* the rebuild pass and the load read that document
C32_ChainEndsWithFlows ==
    \A inv \in 1..run.n :
        /\ IsRebuild(inv) =>
              LoadsOf(inv) = (IF io.cause[inv].tree = "none" THEN 0 ELSE 1)
        /\ run.flows[inv] = "some" => LoadsOf(inv) = 0
        /\ (ByRebuild(inv) /\ io.cause[io.cause[inv].by].tree = "some"
                /\ ~io.cause[inv].late)
              => run.flows[inv] = "some"

---------------------------------------------------------------------------
(* C33: extraction leaves its input alone *)

\* C33: an extraction pass changes no field of a node record it was given, and
\* the entity's node list is after the pass what it was before: the code that
\* was written to the side files is still in the node records.
C33_InputUntouched ==
    last.op = "extract" => nodes = prev.nodes

\* a pass wrote side files for a node, and the node still has the code
C33_CodeStaysInNode ==
    /\ last.op = "extract"
    /\ manifest.state = "ok"
    /\ \E i \in 1..Len(nodes), k \in 1..Len(Entries) :
          /\ Entries[k].nodeId = nodes[i].id
          /\ Entries[k].hasCode /\ Entries[k].isFun
          /\ CodeName(Entries[k].fileName, FALSE) \in DOMAIN files
          /\ nodes[i].func = Str(files[CodeName(Entries[k].fileName, FALSE)])

---------------------------------------------------------------------------
(* C34: restore is idempotent *)

\* C34: a restore that follows a restore with no file change in between
\* changes no field of any node.
C34_RestoreIdempotent ==
    (last.op = "restore" /\ prev.op = "restore") => nodes = prev.nodes

\* two restores in a row over a directory in which a side file of a node with
\* initialize code was edited: the node holds the edited text
C34_SecondRestoreOfEdit ==
    /\ last.op = "restore" /\ prev.op = "restore"
    /\ manifest.state = "ok"
    /\ \E i \in 1..Len(nodes), k \in 1..Len(Entries), t \in EditTexts :
          /\ Entries[k].nodeId = nodes[i].id
          /\ Entries[k].hasInitialize
          /\ InitializeName(Entries[k].fileName) \in DOMAIN files
          /\ files[InitializeName(Entries[k].fileName)] = t
          /\ nodes[i].initialize = Str(t)

===========================================================================
